---------------------------- MODULE Spec2Model ----------------------------
(***************************************************************************)
(* Closed-loop discrete-time motion simulation (tkmotion).                 *)
(*                                                                         *)
(* MotionFlow.execute() wires a DiscreteTime, a MotionProfile, a           *)
(* Controller and a Plant (holding one PhysicalObject) into a step loop.   *)
(*                                                                         *)
(* Numbers.  The program computes with floats; the model computes with     *)
(* integers.  Every input set below is chosen so that each division the    *)
(* code performs (force / mass, 0.5 * x, V / A, L / V) is exact on the     *)
(* values that reach it, so the integer result is the real-number result.  *)
(* The floats that are no real numbers, nan and the two infinities, come   *)
(* from a numpy scalar divided by the mass 0.0; they are values of the     *)
(* model too (inf, -inf, nan), and Add, Sub, Mul, Half and Quot compute    *)
(* with them as the floats do.  Whether a float of the plant is a Python   *)
(* number or a numpy scalar decides between ZeroDivisionError and such a   *)
(* value, so the physical object keeps the set of its numpy attributes.    *)
(***************************************************************************)
EXTENDS Integers, Sequences, FiniteSets, TLC

(***************************************************************************)
(* Bounds of the model.                                                    *)
(***************************************************************************)
\* steps of one execute() the model follows (binds only when the time
\* generator never ends)
MaxSteps == 4
\* execute() calls that pass validation
MaxRuns == 2
\* load_* calls and direct calls on one MotionFlow
MaxLoads == 5
\* direct calls on a component
MaxCalls == 3

\* Python's None
None == [type |-> "None"]

Abs(x) == IF x < 0 THEN -x ELSE x

Sign(x) == IF x < 0 THEN -1 ELSE IF x > 0 THEN 1 ELSE 0

\* the floats that are no numbers of the model: inf (and -inf, written
\* -inf) and nan, each kept as an integer no computation of the model
\* reaches.  The code gets them from a numpy scalar divided by 0.0.
inf == 1073741824

nan == 1073741825

\* x is neither nan nor an infinity
isfinite(x) == x \notin {nan, inf, -inf}

\* a + b of the code: nan with a nan operand and for inf + -inf
Add(a, b) ==
    IF a = nan \/ b = nan THEN nan
    ELSE IF ~isfinite(a) THEN (IF b = -a THEN nan ELSE a)
    ELSE IF ~isfinite(b) THEN b
    ELSE a + b

\* a - b of the code
Sub(a, b) == Add(a, IF b = nan THEN nan ELSE -b)

\* a * b of the code: nan with a nan operand and for 0 * inf
Mul(a, b) ==
    IF a = nan \/ b = nan THEN nan
    ELSE IF isfinite(a) /\ isfinite(b) THEN a * b
    ELSE IF a = 0 \/ b = 0 THEN nan
    ELSE Sign(a) * Sign(b) * inf

\* 0.5 * x of the code (inputs keep a finite x even)
Half(x) == IF isfinite(x) THEN x \div 2 ELSE x

\* a / b of the code (inputs keep a division of finite numbers exact).  The
\* divisor 0 is met only by a dividend that is a numpy scalar, where the
\* quotient is nan for 0 / 0 and an infinity of the dividend's sign else
\* (a Python dividend raises ZeroDivisionError, see apply_force_raises).
Quot(a, b) ==
    IF a = nan THEN nan
    ELSE IF b = 0 THEN (IF a = 0 THEN nan ELSE Sign(a) * inf)
    ELSE IF ~isfinite(a) THEN Sign(a) * Sign(b) * inf
    ELSE IF b < 0 THEN (-a) \div (-b) ELSE a \div b

\* x ** 0.5 for a perfect square x
Sqrt(x) == CHOOSE r \in 0..x : r * r = x

RECURSIVE SumSeq(_)
SumSeq(s) == IF s = << >> THEN 0 ELSE s[1] + SumSeq(Tail(s))

Last(s) == s[Len(s)]

(***************************************************************************)
(* Utility.is_config_compatible: versions are compared by major number.    *)
(***************************************************************************)
\* the module_version of the component modules, as <<major, minor, patch>>
DiscreteTime_module_version == << 0, 3, 0 >>

Controller_module_version == << 0, 3, 0 >>

Plant_module_version == << 0, 3, 0 >>

PhysicalObject_module_version == << 0, 2, 0 >>

MotionProfile_module_version == << 0, 1, 0 >>

\* the versions are compatible when their major numbers are equal
is_config_compatible(module_version, config_version) ==
    module_version[1] = config_version[1]

\* microseconds in a second: dt = time_step_us / 1000000.0
UsPerSecond == 1000000

(***************************************************************************)
(* DiscreteTime                                                            *)
(***************************************************************************)
\* DiscreteTime.__init__: dt and duration are taken as given (no sign check)
DiscreteTime(config) ==
    [dt |-> Quot(config.time_step_us, UsPerSecond), duration |-> config.duration_s]

\* a plausible slip: the test is made on the instant before, so the first
\* instant past the duration is still yielded
GeneratorHasNext_past(dtime, gt) == gt - dtime.dt < dtime.duration

\* the generator's loop test: while t <= duration
GeneratorHasNext(dtime, gt) == gt <= dtime.duration

\* the generator's increment: t += dt, with the dt of the moment
GeneratorAdvance(dtime, gt) == gt + dtime.dt

\* the generator's t when next() brings it to the loop test: t = 0.0 on the
\* first next(), and on a later one the increment that follows the yield
\* at which the generator was suspended (n: the instants yielded so far)
GeneratorResume(dtime, gt, n) == IF n = 0 THEN 0 ELSE GeneratorAdvance(dtime, gt)

\* the dt and duration setters raise ValueError for a value <= 0
DiscreteTimeSetterRaises(value) == value <= 0

\* the dt setter
DiscreteTime_set_dt(dtime, value) ==
    IF DiscreteTimeSetterRaises(value) THEN dtime ELSE [dtime EXCEPT !.dt = value]

\* the duration setter
DiscreteTime_set_duration(dtime, value) ==
    IF DiscreteTimeSetterRaises(value) THEN dtime ELSE [dtime EXCEPT !.duration = value]

\* DiscreteTimeLoader.load: None on any exception
DiscreteTimeLoader_load(config) ==
    IF ~is_config_compatible(DiscreteTime_module_version, config.version) THEN None
    ELSE DiscreteTime(config)

(***************************************************************************)
(* PhysicalObject family                                                   *)
(***************************************************************************)
\* PhysicalObject.__init__ finds the version of its configuration not
\* compatible with the physical object module: ConfigVersionIncompatibleError
PhysicalObjectIncompatible(config) ==
    /\ "version" \in DOMAIN config
    /\ ~is_config_compatible(PhysicalObject_module_version, config.version)

\* PhysicalObject.__init__ raises: KeyError when version is absent,
\* ConfigVersionIncompatibleError when it is not compatible, KeyError when
\* mass_kg is absent; the value of mass_kg is taken as it is, whatever its sign
PhysicalObjectRaises(config) ==
    \/ "version" \notin DOMAIN config
    \/ PhysicalObjectIncompatible(config)
    \/ "mass_kg" \notin DOMAIN config

\* the keys MDSPhysicalObject.__init__ reads after the base class's
MDSPhysicalObjectKeys ==
    << "damper_Ns_m", "spring_N_m", "spring_balance_pos_m",
       "static_friction_coeff", "dynamic_friction_coeff" >>

\* MDSPhysicalObject.__init__ raises: the base class's __init__ does, or one
\* of its own keys is absent (KeyError); every key is required
MDSPhysicalObjectRaises(config) ==
    \/ PhysicalObjectRaises(config)
    \/ \E i \in 1 .. Len(MDSPhysicalObjectKeys) :
          MDSPhysicalObjectKeys[i] \notin DOMAIN config

\* PhysicalObject.__init__ / MDSPhysicalObject.__init__; type is the class,
\* config_type the type tag of the configuration the object keeps.  numpy
\* is the set of the attributes whose value is a numpy scalar (numpy.float64)
\* and not a Python number: none after construction.
PhysicalObject(config) ==
    [type |-> "mass", config_type |-> config.type, mass |-> config.mass_kg,
     damper |-> 0, spring |-> 0, spring_balance_pos |-> 0,
     static_friction_coeff |-> 0, dynamic_friction_coeff |-> 0,
     acc |-> 0, prev_acc |-> 0, vel |-> 0, prev_vel |-> 0,
     pos |-> 0, prev_pos |-> 0,
     damper_force |-> 0, spring_force |-> 0, net_force |-> 0,
     numpy |-> {}]

MDSPhysicalObject(config) ==
    [PhysicalObject(config) EXCEPT
        !.type = "MDS", !.damper = config.damper_Ns_m, !.spring = config.spring_N_m,
        !.spring_balance_pos = config.spring_balance_pos_m,
        !.static_friction_coeff = config.static_friction_coeff,
        !.dynamic_friction_coeff = config.dynamic_friction_coeff]

\* the mass setter: the value is stored as it is
set_mass(o, value) == [o EXCEPT !.mass = value]

\* the object o whose attribute a, just assigned, holds a numpy scalar
\* (isnumpy) or a Python number
astype(o, a, isnumpy) ==
    [o EXCEPT !.numpy = IF isnumpy THEN @ \cup {a} ELSE @ \ {a}]

\* the property setters of the state: each archives the previous value,
\* numpy scalar or Python number as it is; the value a caller hands in is a
\* Python number
set_acc(o, value) ==
    astype(astype([o EXCEPT !.prev_acc = o.acc, !.acc = value],
                  "prev_acc", "acc" \in o.numpy), "acc", FALSE)

set_vel(o, value) ==
    astype(astype([o EXCEPT !.prev_vel = o.vel, !.vel = value],
                  "prev_vel", "vel" \in o.numpy), "vel", FALSE)

set_pos(o, value) ==
    astype(astype([o EXCEPT !.prev_pos = o.pos, !.pos = value],
                  "prev_pos", "pos" \in o.numpy), "pos", FALSE)

\* PhysicalObject.set_state: each value goes through its setter, then the
\* archived value is overwritten with it as well
PhysicalObject_set_state(o, acc, vel, pos) ==
    LET o1 == astype([set_acc(o, acc) EXCEPT !.prev_acc = acc], "prev_acc", FALSE)
        o2 == astype([set_vel(o1, vel) EXCEPT !.prev_vel = vel], "prev_vel", FALSE)
    IN  astype([set_pos(o2, pos) EXCEPT !.prev_pos = pos], "prev_pos", FALSE)

\* the setters of the MDSPhysicalObject's parameters
set_damper(o, value) == [o EXCEPT !.damper = value]

set_spring(o, value) == [o EXCEPT !.spring = value]

set_spring_balance_pos(o, value) == [o EXCEPT !.spring_balance_pos = value]

set_static_friction_coeff(o, value) == [o EXCEPT !.static_friction_coeff = value]

set_dynamic_friction_coeff(o, value) == [o EXCEPT !.dynamic_friction_coeff = value]

\* a plausible slip: the position is integrated with the updated velocity
PhysicalObject_apply_force_newvel(o, force, dt, isnumpy) ==
    LET o1 == astype(set_acc(o, Quot(force, o.mass)), "acc", isnumpy)
        o2 == astype(set_vel(o1, Add(o1.vel, Mul(o1.acc, dt))), "vel",
                     {"vel", "acc"} \cap o1.numpy # {})
    IN  astype(set_pos(o2, Add(o2.pos, Add(Mul(o2.vel, dt),
                                           Half(Mul(o2.acc, dt * dt))))),
               "pos", {"pos", "vel", "acc"} \cap o2.numpy # {})

\* PhysicalObject.apply_force(force, dt); isnumpy: the force is a numpy
\* scalar.  A result is a numpy scalar when an operand is one.
PhysicalObject_apply_force(o, force, dt, isnumpy) ==
    LET o1 == astype(set_acc(o, Quot(force, o.mass)), "acc", isnumpy)
        o2 == astype(set_vel(o1, Add(o1.vel, Mul(o1.acc, dt))), "vel",
                     {"vel", "acc"} \cap o1.numpy # {})
    IN  astype(set_pos(o2, Add(o2.pos, Add(Mul(o2.prev_vel, dt),
                                           Half(Mul(o2.acc, dt * dt))))),
               "pos", {"pos", "prev_vel", "acc"} \cap o2.numpy # {})

\* MDSPhysicalObject.apply_force up to the division: damper_force,
\* spring_force and net_force are assigned from the velocity and position
\* of before the call
MDSPhysicalObject_forces(o, ex_force, isnumpy) ==
    LET df == Mul(-o.damper, o.vel)
        sf == Mul(-o.spring, Sub(o.pos, o.spring_balance_pos))
        nf == Add(Add(ex_force, df), sf)
        o1 == astype([o EXCEPT !.damper_force = df], "damper_force",
                     "vel" \in o.numpy)
        o2 == astype([o1 EXCEPT !.spring_force = sf], "spring_force",
                     "pos" \in o.numpy)
    IN  astype([o2 EXCEPT !.net_force = nf], "net_force",
               isnumpy \/ {"vel", "pos"} \cap o.numpy # {})

\* a plausible slip: the restoring forces are applied, then the base class
\* integrates a second time
MDSPhysicalObject_apply_force_twice(o, ex_force, dt, isnumpy) ==
    LET o0 == MDSPhysicalObject_forces(o, ex_force, isnumpy)
        nn == "net_force" \in o0.numpy
    IN  PhysicalObject_apply_force(
            PhysicalObject_apply_force(o0, o0.net_force, dt, nn),
            o0.net_force, dt, nn)

\* MDSPhysicalObject.apply_force(ex_force, dt)
MDSPhysicalObject_apply_force(o, ex_force, dt, isnumpy) ==
    LET o0 == MDSPhysicalObject_forces(o, ex_force, isnumpy)
        o1 == astype(set_acc(o0, Quot(o0.net_force, o0.mass)), "acc",
                     "net_force" \in o0.numpy)
        o2 == astype(set_vel(o1, Add(o1.vel, Mul(o1.acc, dt))), "vel",
                     {"vel", "acc"} \cap o1.numpy # {})
    IN  astype(set_pos(o2, Add(o2.pos, Add(Mul(o2.prev_vel, dt),
                                           Half(Mul(o2.acc, dt * dt))))),
               "pos", {"pos", "prev_vel", "acc"} \cap o2.numpy # {})

\* dynamic dispatch of apply_force on the object's class
apply_force(o, force, dt, isnumpy) ==
    IF o.type = "MDS" THEN MDSPhysicalObject_apply_force(o, force, dt, isnumpy)
    ELSE PhysicalObject_apply_force(o, force, dt, isnumpy)

\* the division by self.mass raises ZeroDivisionError: the mass is 0 and the
\* dividend is a Python number, the force for the single mass, and for the
\* mass-damper-spring the net force, a Python number when the force, the
\* velocity and the position are
apply_force_raises(o, isnumpy) ==
    /\ o.mass = 0
    /\ ~isnumpy
    /\ o.type = "MDS" => {"vel", "pos"} \cap o.numpy = {}

\* the object after an apply_force that raised at the division: the MDS
\* object has already stored its three forces, nothing else was assigned
apply_force_raised(o, ex_force, dt) ==
    IF o.type = "MDS" THEN MDSPhysicalObject_forces(o, ex_force, FALSE) ELSE o

\* PhysicalObject.reset / MDSPhysicalObject.reset: the literal 0.0
PhysicalObject_reset(o) ==
    [o EXCEPT !.acc = 0, !.prev_acc = 0, !.vel = 0, !.prev_vel = 0,
              !.pos = 0, !.prev_pos = 0,
              !.numpy = @ \ {"acc", "prev_acc", "vel", "prev_vel", "pos", "prev_pos"}]

MDSPhysicalObject_reset(o) ==
    [PhysicalObject_reset(o) EXCEPT
        !.damper_force = 0, !.spring_force = 0, !.net_force = 0,
        !.numpy = @ \ {"damper_force", "spring_force", "net_force"}]

phyobj_reset(o) ==
    IF o.type = "MDS" THEN MDSPhysicalObject_reset(o) ELSE PhysicalObject_reset(o)

\* config["physical_object"][phyobj_index] for the default phyobj_index = 0
PlantPhysicalObjectConfig(config) == config.physical_object[1]

\* Plant.__init__: the type of the physical object's configuration selects
\* the class, "MDS" the mass-damper-spring object, any other type the single
\* mass; the plant is modelled by the physical object it holds
Plant(config) ==
    IF PlantPhysicalObjectConfig(config).type = "MDS"
    THEN MDSPhysicalObject(PlantPhysicalObjectConfig(config))
    ELSE PhysicalObject(PlantPhysicalObjectConfig(config))

\* Plant.__init__ raises: physical_object or the entry's type is absent, or
\* the physical object's __init__ raises
PlantRaises(config) ==
    \/ "physical_object" \notin DOMAIN config
    \/ Len(config.physical_object) = 0
    \/ "type" \notin DOMAIN PlantPhysicalObjectConfig(config)
    \/ IF PlantPhysicalObjectConfig(config).type = "MDS"
       THEN MDSPhysicalObjectRaises(PlantPhysicalObjectConfig(config))
       ELSE PhysicalObjectRaises(PlantPhysicalObjectConfig(config))

\* the exception PlantLoader.load catches and prints ("none" when the plant
\* is constructed); an empty physical_object list gives the IndexError of
\* the subscript, which Plant.__init__ does not turn into a KeyError
PlantLoader_load_exception(config) ==
    IF ~is_config_compatible(Plant_module_version, config.version)
    THEN "ConfigVersionIncompatibleError"
    ELSE IF ~PlantRaises(config) THEN "none"
    ELSE IF /\ "physical_object" \in DOMAIN config
            /\ Len(config.physical_object) = 0
    THEN "IndexError"
    ELSE IF /\ "physical_object" \in DOMAIN config
            /\ Len(config.physical_object) > 0
            /\ "type" \in DOMAIN PlantPhysicalObjectConfig(config)
            /\ PhysicalObjectIncompatible(PlantPhysicalObjectConfig(config))
    THEN "ConfigVersionIncompatibleError"
    ELSE "KeyError"

\* PlantLoader.load: the plant's version is checked against the plant
\* module; None on any exception
PlantLoader_load(config) ==
    IF ~is_config_compatible(Plant_module_version, config.version) THEN None
    ELSE IF PlantRaises(config) THEN None
    ELSE Plant(config)

\* PhysicalObject.get_observer: a new observer with empty lists
PhysicalObjectObserver(o) ==
    [acc |-> << >>, vel |-> << >>, pos |-> << >>,
     damper_force |-> << >>, spring_force |-> << >>, net_force |-> << >>]

\* PhysicalObjectObserver.observe / MDSPhysicalObjectObserver.observe
PhysicalObjectObserver_observe(obs, o) ==
    LET base == [obs EXCEPT !.acc = Append(@, o.acc), !.vel = Append(@, o.vel),
                            !.pos = Append(@, o.pos)]
    IN  IF o.type = "MDS"
        THEN [base EXCEPT !.damper_force = Append(@, o.damper_force),
                          !.spring_force = Append(@, o.spring_force),
                          !.net_force = Append(@, o.net_force)]
        ELSE base

(***************************************************************************)
(* Controller family                                                       *)
(***************************************************************************)
\* Controller.__init__ : the fields of every variant, with the state at zero;
\* type is the class, config_type the type tag of the configuration (the
\* type property); the frequency is a fraction << numerator, denominator >>
Controller(config) ==
    [type |-> "null", config_type |-> config.type,
     amplitude |-> 0, frequency |-> << 0, 1 >>,
     kvp |-> 0, kvi |-> 0, kvd |-> 0, kpp |-> 0, kpi |-> 0, kpd |-> 0,
     p_force |-> 0, on_timestep_count |-> 0, delay_s |-> 0, s_force |-> 0,
     force |-> 0,
     vel_error |-> 0, pos_error |-> 0,
     vel_error_cumsum |-> 0, pos_error_cumsum |-> 0,
     prev_vel_error |-> 0, vel_error_diff |-> 0,
     prev_pos_error |-> 0, pos_error_diff |-> 0,
     step_counter |-> 0]

\* a plausible slip: reset() leaves the two cumulative errors
PIDController_reset_keepsum(c) ==
    [c EXCEPT !.vel_error = 0, !.pos_error = 0,
              !.prev_vel_error = 0, !.vel_error_diff = 0,
              !.prev_pos_error = 0, !.pos_error_diff = 0]

\* PIDController.reset (the last force is left as it is)
PIDController_reset(c) ==
    [c EXCEPT !.vel_error = 0, !.pos_error = 0,
              !.vel_error_cumsum = 0, !.pos_error_cumsum = 0,
              !.prev_vel_error = 0, !.vel_error_diff = 0,
              !.prev_pos_error = 0, !.pos_error_diff = 0]

\* PIDController.__init__
PIDController(config) ==
    PIDController_reset(
        [Controller(config) EXCEPT
            !.type = "PID",
            !.kvp = config.kvp, !.kvi = config.kvi, !.kvd = config.kvd,
            !.kpp = config.kpp, !.kpi = config.kpi, !.kpd = config.kpd])

\* ImpulseController.__init__
ImpulseController(config) ==
    [Controller(config) EXCEPT
        !.type = "impulse", !.p_force = config.impulse_force_N,
        !.on_timestep_count = config.impulse_on_timestep_count,
        !.delay_s = config.delay_s, !.step_counter = 0]

\* StepController.__init__
StepController(config) ==
    [Controller(config) EXCEPT
        !.type = "step", !.s_force = config.step_force_N, !.delay_s = config.delay_s]

\* SinusoidalController.__init__
SinusoidalController(config) ==
    [Controller(config) EXCEPT
        !.type = "sin", !.amplitude = config.amplitude_N,
        !.frequency = config.frequency_Hz]

\* ImpulseController.reset
ImpulseController_reset(c) == [c EXCEPT !.step_counter = 0]

\* dynamic dispatch of reset(): Controller.reset, StepController.reset and
\* SinusoidalController.reset do nothing
controller_reset(c) ==
    IF c.type = "PID" THEN PIDController_reset(c)
    ELSE IF c.type = "impulse" THEN ImpulseController_reset(c)
    ELSE c

\* a plausible slip: the integral term is clamped (anti-windup)
PIDController_calculate_force_clamped(c, t, cmd_vel, cmd_pos, plant_vel, plant_pos) ==
    LET ve == cmd_vel - plant_vel
        vsraw == c.vel_error_cumsum + ve
        vs == IF vsraw > 4 THEN 4 ELSE IF vsraw < -4 THEN -4 ELSE vsraw
        vd == ve - c.prev_vel_error
        pe == cmd_pos - plant_pos
        ps == c.pos_error_cumsum + pe
        pd == pe - c.prev_pos_error
        f  == c.kvp * ve + c.kvi * vs + c.kvd * vd
              + c.kpp * pe + c.kpi * ps + c.kpd * pd
    IN  [c EXCEPT !.vel_error = ve, !.vel_error_cumsum = vs,
                  !.vel_error_diff = vd, !.prev_vel_error = ve,
                  !.pos_error = pe, !.pos_error_cumsum = ps,
                  !.pos_error_diff = pd, !.prev_pos_error = pe,
                  !.force = f]

\* PIDController.calculate_force
PIDController_calculate_force(c, t, cmd_vel, cmd_pos, plant_vel, plant_pos) ==
    LET ve == Sub(cmd_vel, plant_vel)
        vs == Add(c.vel_error_cumsum, ve)
        vd == Sub(ve, c.prev_vel_error)
        pe == Sub(cmd_pos, plant_pos)
        ps == Add(c.pos_error_cumsum, pe)
        pd == Sub(pe, c.prev_pos_error)
        f  == Add(Add(Add(Add(Add(Mul(c.kvp, ve), Mul(c.kvi, vs)), Mul(c.kvd, vd)),
                          Mul(c.kpp, pe)), Mul(c.kpi, ps)), Mul(c.kpd, pd))
    IN  [c EXCEPT !.vel_error = ve, !.vel_error_cumsum = vs,
                  !.vel_error_diff = vd, !.prev_vel_error = ve,
                  !.pos_error = pe, !.pos_error_cumsum = ps,
                  !.pos_error_diff = pd, !.prev_pos_error = pe,
                  !.force = f]

\* a plausible slip: the calls made during the delay are counted as well
ImpulseController_calculate_force_countall(c, t, cmd_vel, cmd_pos, plant_vel, plant_pos) ==
    IF t < c.delay_s THEN [c EXCEPT !.step_counter = @ + 1, !.force = 0]
    ELSE IF c.step_counter < c.on_timestep_count
         THEN [c EXCEPT !.step_counter = @ + 1, !.force = c.p_force]
         ELSE [c EXCEPT !.force = 0]

\* ImpulseController.calculate_force
ImpulseController_calculate_force(c, t, cmd_vel, cmd_pos, plant_vel, plant_pos) ==
    IF t < c.delay_s THEN [c EXCEPT !.force = 0]
    ELSE IF c.step_counter < c.on_timestep_count
         THEN [c EXCEPT !.step_counter = @ + 1, !.force = c.p_force]
         ELSE [c EXCEPT !.force = 0]

\* StepController.calculate_force
StepController_calculate_force(c, t, cmd_vel, cmd_pos, plant_vel, plant_pos) ==
    IF t < c.delay_s THEN [c EXCEPT !.force = 0] ELSE [c EXCEPT !.force = c.s_force]

\* the arguments x = num / den at which np.sin(2 * np.pi * x) is an integer
\* as a float: x = 0 (sin(0.0) is 0.0) and the odd quarter turns (1.0 and
\* -1.0).  At the other half and whole turns the float result is a rounding
\* residue (1.2e-16 at x = 1/2, -2.4e-16 at x = 1), which is not 0 and is no
\* multiple of the model's unit: the model is not taken there.
SinTurnsExact(num, den) ==
    \/ num = 0
    \/ (4 * num) % den = 0 /\ Quot(4 * num, den) % 2 = 1

\* np.sin(2 * np.pi * x) for x = num / den, where SinTurnsExact holds
SinTurns(num, den) ==
    CASE num = 0 -> 0
      [] num # 0 /\ Quot(4 * num, den) % 4 = 1 -> 1
      [] num # 0 /\ Quot(4 * num, den) % 4 = 3 -> -1

\* calculate_force(t, ...) of the controller stays within the integers
calculate_force_exact(c, t) ==
    c.type = "sin" => SinTurnsExact(c.frequency[1] * t, c.frequency[2])

\* SinusoidalController.calculate_force
SinusoidalController_calculate_force(c, t, cmd_vel, cmd_pos, plant_vel, plant_pos) ==
    [c EXCEPT !.force = c.amplitude * SinTurns(c.frequency[1] * t, c.frequency[2])]

\* dynamic dispatch of calculate_force: the controller after the call
\* (Controller.calculate_force changes nothing)
calculate_force(c, t, cmd_vel, cmd_pos, plant_vel, plant_pos) ==
    IF c.type = "PID"
    THEN PIDController_calculate_force(c, t, cmd_vel, cmd_pos, plant_vel, plant_pos)
    ELSE IF c.type = "impulse"
    THEN ImpulseController_calculate_force(c, t, cmd_vel, cmd_pos, plant_vel, plant_pos)
    ELSE IF c.type = "step"
    THEN StepController_calculate_force(c, t, cmd_vel, cmd_pos, plant_vel, plant_pos)
    ELSE IF c.type = "sin"
    THEN SinusoidalController_calculate_force(c, t, cmd_vel, cmd_pos, plant_vel, plant_pos)
    ELSE c

\* the value calculate_force returns, given the controller after the call:
\* self._force, and the literal 0.0 for the base Controller
calculate_force_result(c) == IF c.type = "null" THEN 0 ELSE c.force

\* ControllerLoader.load: the type tag selects the class, any other tag the
\* base Controller; None on any exception
ControllerLoader_load(config) ==
    IF ~is_config_compatible(Controller_module_version, config.version) THEN None
    ELSE IF config.type = "PID" THEN PIDController(config)
    ELSE IF config.type = "impulse" THEN ImpulseController(config)
    ELSE IF config.type = "step" THEN StepController(config)
    ELSE IF config.type = "sin" THEN SinusoidalController(config)
    ELSE Controller(config)

\* Controller.get_observer / PIDController.get_observer: empty lists
ControllerObserver(c) ==
    [vel_error |-> << >>, pos_error |-> << >>,
     vel_error_cumsum |-> << >>, pos_error_cumsum |-> << >>,
     vel_error_diff |-> << >>, pos_error_diff |-> << >>, force |-> << >>]

\* ControllerObserver.observe / PIDControllerObserver.observe
ControllerObserver_observe(obs, c) ==
    IF c.type = "PID"
    THEN [vel_error |-> Append(obs.vel_error, c.vel_error),
          pos_error |-> Append(obs.pos_error, c.pos_error),
          vel_error_cumsum |-> Append(obs.vel_error_cumsum, c.vel_error_cumsum),
          pos_error_cumsum |-> Append(obs.pos_error_cumsum, c.pos_error_cumsum),
          vel_error_diff |-> Append(obs.vel_error_diff, c.vel_error_diff),
          pos_error_diff |-> Append(obs.pos_error_diff, c.pos_error_diff),
          force |-> Append(obs.force, c.force)]
    ELSE [obs EXCEPT !.force = Append(@, c.force)]

(***************************************************************************)
(* MotionProfile family                                                    *)
(***************************************************************************)
\* MotionProfile.__init__ : the fields of every variant
MotionProfile(config) ==
    [type |-> "null", config_type |-> config.type, V |-> 0, A |-> 0, L |-> 0, dir |-> 0,
     Ta |-> 0, T |-> 0, Tc |-> 0,
     p_vel |-> 0, p_pos |-> 0, t_step |-> 0, step_counter |-> 0]

\* the checks of TrapezoidalMotionProfile.__init__ that raise
TrapezoidalConfigRaises(config) == config.max_velocity_m_s <= 0 \/ config.acceleration_m_s2 <= 0 \/ config.length_m = 0

\* a plausible slip: the triangular correction is left out
TrapezoidalMotionProfile_uncorrected(config) ==
    LET V   == config.max_velocity_m_s
        A   == config.acceleration_m_s2
        L   == Abs(config.length_m)
        Ta0 == Quot(V, A)
        T0  == Quot(L, V) + Ta0
    IN  [MotionProfile(config) EXCEPT
            !.type = "trapezoid", !.V = V, !.A = A, !.L = L,
            !.dir = Sign(config.length_m),
            !.Ta = Ta0, !.Tc = T0 - 2 * Ta0, !.T = T0]

\* TrapezoidalMotionProfile.__init__ : Ta, T, Tc and the triangular correction
TrapezoidalMotionProfile(config) ==
    LET V   == config.max_velocity_m_s
        A   == config.acceleration_m_s2
        L   == Abs(config.length_m)
        Ta0 == Quot(V, A)
        T0  == Quot(L, V) + Ta0
        Tc0 == T0 - 2 * Ta0
        Ta1 == Sqrt(Quot(L, A))
    IN  [MotionProfile(config) EXCEPT
            !.type = "trapezoid", !.V = V, !.A = A, !.L = L,
            !.dir = Sign(config.length_m),
            !.Ta = IF Tc0 < 0 THEN Ta1 ELSE Ta0,
            !.Tc = IF Tc0 < 0 THEN 0 ELSE Tc0,
            !.T  = IF Tc0 < 0 THEN 2 * Ta1 ELSE T0]

\* ImpulseMotionProfile.__init__
ImpulseMotionProfile(config) ==
    [MotionProfile(config) EXCEPT
        !.type = "impulse", !.p_vel = config.impulse_vel_m_s, !.p_pos = config.impulse_pos_m,
        !.t_step = config.impulse_timestep, !.step_counter = 0]

\* a plausible slip: the instant T itself is taken as past the motion
TrapezoidalMotionProfile_calculate_cmd_vel_pos_beforeT(p, t) ==
    IF t < p.Ta
    THEN << p.dir * p.A * t, p.dir * Half(p.A * (t * t)) >>
    ELSE IF t < p.Ta + p.Tc
    THEN << p.dir * p.A * p.Ta,
            p.dir * (Half(p.A * (p.Ta * p.Ta)) + p.V * (t - p.Ta)) >>
    ELSE IF t < p.T
    THEN LET td == t - p.Ta - p.Tc
         IN  << p.dir * p.A * (p.T - t),
                p.dir * (Half(p.A * (p.Ta * p.Ta)) + p.V * p.Tc + p.V * td
                         - Half(p.A * (td * td))) >>
    ELSE << 0, p.dir * p.L >>

\* TrapezoidalMotionProfile.calculate_cmd_vel_pos: <<vel, pos>>
TrapezoidalMotionProfile_calculate_cmd_vel_pos(p, t) ==
    IF t < p.Ta
    THEN << p.dir * p.A * t, p.dir * Half(p.A * (t * t)) >>
    ELSE IF t < p.Ta + p.Tc
    THEN << p.dir * p.A * p.Ta,
            p.dir * (Half(p.A * (p.Ta * p.Ta)) + p.V * (t - p.Ta)) >>
    ELSE IF t <= p.T
    THEN LET td == t - p.Ta - p.Tc
         IN  << p.dir * p.A * (p.T - t),
                p.dir * (Half(p.A * (p.Ta * p.Ta)) + p.V * p.Tc + p.V * td
                         - Half(p.A * (td * td))) >>
    ELSE << 0, p.dir * p.L >>

\* a plausible slip: the impulse is gated by the time, not by the call count
ImpulseMotionProfile_calculate_cmd_vel_pos_bytime(p, t) ==
    IF t < p.t_step THEN << p.p_vel, p.p_pos >> ELSE << 0, 0 >>

\* ImpulseMotionProfile.calculate_cmd_vel_pos: the returned <<vel, pos>>
ImpulseMotionProfile_calculate_cmd_vel_pos(p, t) ==
    IF p.step_counter < p.t_step THEN << p.p_vel, p.p_pos >> ELSE << 0, 0 >>

\* a plausible slip: the counter starts over once the impulse is through
ImpulseMotionProfile_count_wrap(p) ==
    IF p.step_counter < p.t_step THEN [p EXCEPT !.step_counter = @ + 1]
    ELSE [p EXCEPT !.step_counter = 0]

\* ImpulseMotionProfile.calculate_cmd_vel_pos: the profile after the call
ImpulseMotionProfile_count(p) ==
    IF p.step_counter < p.t_step THEN [p EXCEPT !.step_counter = @ + 1] ELSE p

\* dynamic dispatch of calculate_cmd_vel_pos: the returned <<vel, pos>>
calculate_cmd_vel_pos(p, t) ==
    IF p.type = "trapezoid" THEN TrapezoidalMotionProfile_calculate_cmd_vel_pos(p, t)
    ELSE IF p.type = "impulse" THEN ImpulseMotionProfile_calculate_cmd_vel_pos(p, t)
    ELSE << 0, 0 >>

\* dynamic dispatch of calculate_cmd_vel_pos: the profile after the call
profile_after_call(p) ==
    IF p.type = "impulse" THEN ImpulseMotionProfile_count(p) ELSE p

\* MotionProfileLoader.load: the type tag selects the class, any other tag
\* the base MotionProfile; None on any exception
MotionProfileLoader_load(config) ==
    IF ~is_config_compatible(MotionProfile_module_version, config.version) THEN None
    ELSE IF config.type = "trapezoid"
         THEN IF TrapezoidalConfigRaises(config) THEN None
              ELSE TrapezoidalMotionProfile(config)
    ELSE IF config.type = "impulse" THEN ImpulseMotionProfile(config)
    ELSE MotionProfile(config)

\* the motion profile's observer (get_observer): a new observer, empty lists.
\* execute() calls MotionProfile.get_observer() (motion_flow.py 188), the
\* observer's observe() (204) and its get_observed_data() (229);
\* motion_profile.py defines no observer, so the three are written after
\* the documented observer interface: observe() once per step,
\* get_observed_data() returning the recorded lists.
MotionProfileObserver(p) == [cmd_vel |-> << >>, cmd_pos |-> << >>]

\* the motion profile observer's observe(): appends the command just computed
MotionProfileObserver_observe(obs, vel, pos) ==
    [cmd_vel |-> Append(obs.cmd_vel, vel), cmd_pos |-> Append(obs.cmd_pos, pos)]

(***************************************************************************)
(* Configurations offered to the loaders.  Version 1.0.0 is incompatible   *)
(* with every module, and the loader turns such a configuration into None. *)
(* The PID gains are the values of the keys kvp_N_(m_s) ... kpd_N_m.       *)
(* The sinusoidal controller of the flow has the frequency 0: its force is *)
(* amplitude * sin(0.0) = 0.0 at every instant of a run.                   *)
(***************************************************************************)
DiscreteTimeConfigs ==
    { [version |-> << 0, 3, 0 >>, time_step_us |-> 2000000, duration_s |-> 4],
      [version |-> << 0, 3, 0 >>, time_step_us |-> 2000000, duration_s |-> 3],
      [version |-> << 0, 3, 0 >>, time_step_us |-> 0, duration_s |-> 2],
      [version |-> << 0, 3, 0 >>, time_step_us |-> 2000000, duration_s |-> -2],
      [version |-> << 1, 0, 0 >>, time_step_us |-> 2000000, duration_s |-> 4] }

ControllerConfigs ==
    { [version |-> << 0, 3, 0 >>, type |-> "none"],
      [version |-> << 0, 3, 0 >>, type |-> "PID", kvp |-> 4, kvi |-> 2, kvd |-> -4,
                                  kpp |-> 2, kpi |-> -2, kpd |-> -2],
      [version |-> << 0, 3, 0 >>, type |-> "impulse", impulse_force_N |-> 4,
                                  impulse_on_timestep_count |-> 2, delay_s |-> 2],
      [version |-> << 0, 3, 0 >>, type |-> "step", step_force_N |-> 2, delay_s |-> 2],
      [version |-> << 0, 3, 0 >>, type |-> "sin", amplitude_N |-> 4,
                                  frequency_Hz |-> << 0, 1 >>],
      [version |-> << 0, 3, 0 >>, type |-> "pid", kvp |-> 4, kvi |-> 2, kvd |-> -4,
                                  kpp |-> 2, kpi |-> -2, kpd |-> -2],
      [version |-> << 1, 0, 0 >>, type |-> "none"] }

\* the entries of a plant configuration's physical_object list: each has its
\* own version, checked against the physical object module (0.2.0); the
\* mass 0 is taken like any other
PhysicalObjectConfigs ==
    { [version |-> << 0, 2, 0 >>, type |-> "mass", mass_kg |-> 1],
      [version |-> << 0, 2, 0 >>, type |-> "mass", mass_kg |-> 2],
      [version |-> << 0, 2, 0 >>, type |-> "mass", mass_kg |-> 0],
      [version |-> << 0, 2, 0 >>, type |-> "MDS", mass_kg |-> 1, damper_Ns_m |-> 1,
                                  spring_N_m |-> 2, spring_balance_pos_m |-> 1,
                                  static_friction_coeff |-> 0,
                                  dynamic_friction_coeff |-> 0],
      [version |-> << 0, 2, 0 >>, type |-> "mds", mass_kg |-> 1, damper_Ns_m |-> 1,
                                  spring_N_m |-> 2, spring_balance_pos_m |-> 1,
                                  static_friction_coeff |-> 0,
                                  dynamic_friction_coeff |-> 0],
      [version |-> << 1, 0, 0 >>, type |-> "mass", mass_kg |-> 1] }

\* plant configurations of version 0.3.0 around each of these entries, and
\* one whose own version is not compatible with the plant module
PlantConfigs ==
    { [version |-> << 0, 3, 0 >>, physical_object |-> << po >>] :
         po \in PhysicalObjectConfigs }
    \cup
    { [version |-> << 1, 0, 0 >>,
       physical_object |-> << [version |-> << 0, 2, 0 >>, type |-> "mass",
                               mass_kg |-> 1] >>] }

MotionProfileConfigs ==
    { [version |-> << 0, 1, 0 >>, type |-> "none"],
      [version |-> << 0, 1, 0 >>, type |-> "trapezoid", max_velocity_m_s |-> 4,
                                  acceleration_m_s2 |-> 2, length_m |-> 16],
      [version |-> << 0, 1, 0 >>, type |-> "impulse", impulse_vel_m_s |-> 2,
                                  impulse_pos_m |-> 4, impulse_timestep |-> 2],
      [version |-> << 0, 1, 0 >>, type |-> "trapezoid", max_velocity_m_s |-> 0,
                                  acceleration_m_s2 |-> 2, length_m |-> 16],
      [version |-> << 0, 1, 0 >>, type |-> "Trapezoid", max_velocity_m_s |-> 4,
                                  acceleration_m_s2 |-> 2, length_m |-> 16] }

(***************************************************************************)
(* State.                                                                  *)
(*   discrete_time, controller, plant, motion_profile : MotionFlow's four  *)
(*     components (None until loaded); plant is the plant's physical_obj   *)
(*   pc : where execute() is ("idle" when no execute() is running)         *)
(*   gen_t : the time generator's local t (while the generator is          *)
(*     suspended, the instant it has just yielded);  t, cmd_vel, cmd_pos,  *)
(*     force : the loop's locals;  time_list and the three observers : the *)
(*     recorders                                                           *)
(*   result, outcome : what the last MotionFlow call returned or raised    *)
(* History variables (read by the properties only):                        *)
(*   op : the last call made;  runs, loads, calls : call counters          *)
(*   drawn, applied : instants yielded and apply_force calls in this run   *)
(*   trace : the calls made in the current step, with their arguments      *)
(*   entry : controller, plant and motion profile as they were when        *)
(*     execute() was entered                                               *)
(*   before : the plant as it was when the current instant was drawn       *)
(*   since : calculate_force calls with t >= delay_s since the last reset  *)
(*   twin : for a component called directly, the object as constructed,    *)
(*     with the parameters set since (fresh), and that object fed the      *)
(*     calls made since the last reset() (now)                             *)
(*   streak : the calls since the last reset() or construction (for the    *)
(*     DiscreteTime, since the generator was made): how many (n), the      *)
(*     input of the first (key) and whether all had that input and no      *)
(*     setter was called in between (same)                                 *)
(***************************************************************************)
VARIABLES discrete_time, controller, plant, motion_profile,
          pc, gen_t, t, cmd_vel, cmd_pos, force,
          time_list, motion_prof_observer, controller_observer, phyobj_observer,
          result, outcome,
          op, runs, loads, calls, drawn, applied, trace, entry, before, since,
          twin, streak

components == << discrete_time, controller, plant, motion_profile >>

locals == << gen_t, t, cmd_vel, cmd_pos, force >>

recorders == << time_list, motion_prof_observer, controller_observer, phyobj_observer >>

history == << runs, loads, calls, drawn, applied, trace, entry, before, since, twin, streak >>

vars == << discrete_time, controller, plant, motion_profile,
           pc, gen_t, t, cmd_vel, cmd_pos, force,
           time_list, motion_prof_observer, controller_observer, phyobj_observer,
           result, outcome,
           op, runs, loads, calls, drawn, applied, trace, entry, before, since, twin, streak >>

NoObserver == << >>

\* no call since the last reset() or construction
NoStreak == [key |-> << >>, n |-> 0, same |-> TRUE]

\* the streak after a setter call
StreakBroken(sk) == [sk EXCEPT !.same = FALSE]

\* the streak after one more call whose input is k
StreakAfter(sk, k) ==
    IF sk.n = 0 THEN [key |-> k, n |-> 1, same |-> sk.same]
    ELSE [key |-> sk.key, n |-> sk.n + 1, same |-> sk.same /\ k = sk.key]

\* everything but the four components, as it is before any call
Fresh ==
    /\ pc = "idle"
    /\ gen_t = 0 /\ t = 0 /\ cmd_vel = 0 /\ cmd_pos = 0 /\ force = 0
    /\ time_list = << >>
    /\ motion_prof_observer = NoObserver
    /\ controller_observer = NoObserver
    /\ phyobj_observer = NoObserver
    /\ result = None /\ outcome = "none"
    /\ op = "init" /\ runs = 0 /\ loads = 0 /\ calls = 0
    /\ drawn = 0 /\ applied = 0
    /\ trace = << >> /\ entry = None /\ before = None /\ since = 0
    /\ streak = NoStreak

\* MotionFlow.__init__
Init ==
    /\ discrete_time = None /\ controller = None
    /\ plant = None /\ motion_profile = None
    /\ twin = None
    /\ Fresh

(***************************************************************************)
(* MotionFlow.load_*: the loader's result replaces the component; a None   *)
(* result raises ValueError.  The loads made before the first direct call  *)
(* on a component are followed (calls = 0).                                *)
(***************************************************************************)
LoadOutcome(component) == IF component = None THEN "ValueError: load failed" ELSE "ok"

load_discrete_time ==
    /\ pc = "idle" /\ calls = 0 /\ loads + calls < MaxLoads
    /\ \E config \in DiscreteTimeConfigs :
          /\ discrete_time' = DiscreteTimeLoader_load(config)
          /\ outcome' = LoadOutcome(DiscreteTimeLoader_load(config))
    /\ op' = "load_discrete_time" /\ loads' = loads + 1 /\ result' = None
    /\ UNCHANGED << controller, plant, motion_profile, pc, locals, recorders,
                    runs, calls, drawn, applied, trace, entry, before, since, twin, streak >>

load_motion_profile ==
    /\ pc = "idle" /\ calls = 0 /\ loads + calls < MaxLoads
    /\ \E config \in MotionProfileConfigs :
          /\ motion_profile' = MotionProfileLoader_load(config)
          /\ outcome' = LoadOutcome(MotionProfileLoader_load(config))
    /\ op' = "load_motion_profile" /\ loads' = loads + 1 /\ result' = None
    /\ UNCHANGED << discrete_time, controller, plant, pc, locals, recorders,
                    runs, calls, drawn, applied, trace, entry, before, since, twin, streak >>

load_controller ==
    /\ pc = "idle" /\ calls = 0 /\ loads + calls < MaxLoads
    /\ \E config \in ControllerConfigs :
          /\ controller' = ControllerLoader_load(config)
          /\ outcome' = LoadOutcome(ControllerLoader_load(config))
    /\ op' = "load_controller" /\ loads' = loads + 1 /\ result' = None
    /\ UNCHANGED << discrete_time, plant, motion_profile, pc, locals, recorders,
                    runs, calls, drawn, applied, trace, entry, before, since, twin, streak >>

\* a plausible slip: the loader's result is tested before it is assigned, so
\* a failed load keeps the plant loaded earlier
load_plant_keep ==
    /\ pc = "idle" /\ calls = 0 /\ loads + calls < MaxLoads
    /\ \E config \in PlantConfigs :
          /\ plant' = IF PlantLoader_load(config) = None THEN plant
                      ELSE PlantLoader_load(config)
          /\ outcome' = LoadOutcome(PlantLoader_load(config))
    /\ op' = "load_plant" /\ loads' = loads + 1 /\ result' = None
    /\ UNCHANGED << discrete_time, controller, motion_profile, pc, locals, recorders,
                    runs, calls, drawn, applied, trace, entry, before, since, twin, streak >>

load_plant ==
    /\ pc = "idle" /\ calls = 0 /\ loads + calls < MaxLoads
    /\ \E config \in PlantConfigs :
          /\ plant' = PlantLoader_load(config)
          /\ outcome' = LoadOutcome(PlantLoader_load(config))
    /\ op' = "load_plant" /\ loads' = loads + 1 /\ result' = None
    /\ UNCHANGED << discrete_time, controller, motion_profile, pc, locals, recorders,
                    runs, calls, drawn, applied, trace, entry, before, since, twin, streak >>

\* the caller resets the plant between runs: plant.physical_obj.reset()
plant_reset ==
    /\ pc = "idle" /\ plant # None
    /\ plant' = phyobj_reset(plant)
    /\ op' = "plant_reset" /\ result' = None /\ outcome' = "ok"
    /\ UNCHANGED << discrete_time, controller, motion_profile, pc, locals, recorders,
                    history >>

(***************************************************************************)
(* The public setters of the physical object and of the DiscreteTime, which *)
(* a caller may use on a component whenever execute() is not running.      *)
(***************************************************************************)
\* the values handed to the setters
SetterMasses == {0, 2}

SetterStates == { << 2, 4, 6 >> }

SetterDampers == {0}

SetterSprings == {0}

SetterBalances == {2}

SetterFrictions == {1}

SetterDts == {0, 2}

SetterDurations == {0, 2}

\* the arguments (t, cmd_vel, cmd_pos, vel, pos) of a direct calculate_force
\* call on the flow's controller
FlowCallArgs == { << 2, 2, 4, 0, 0 >>, << 2, 2, 2, 0, 6 >> }

\* execute() is not running
Callable == pc \in {"idle", "generator", "exhausted"}

\* one more direct call fits the bounds; on a MotionFlow the direct calls
\* are followed that are made before its first execute()
Budget == calls < MaxCalls /\ loads + calls < MaxLoads /\ runs = 0

\* a setter call on the physical object: Set(o) is the object after it;
\* a parameter changes the object as constructed too, a state value does not
PhysicalObjectSetterCall(name, value, Set(_), parameter) ==
    /\ Callable /\ plant # None /\ Budget
    /\ plant' = Set(plant)
    /\ twin' = IF twin = None THEN None
               ELSE [fresh |-> IF parameter THEN Set(twin.fresh) ELSE twin.fresh,
                     now |-> Set(twin.now)]
    /\ streak' = StreakBroken(streak)
    /\ trace' = << [call |-> name, value |-> value, pre |-> plant] >>
    /\ op' = name /\ outcome' = "ok" /\ result' = None /\ calls' = calls + 1
    /\ UNCHANGED << discrete_time, controller, motion_profile, pc, locals, recorders,
                    runs, loads, drawn, applied, entry, before, since >>

\* physical_obj.set_state(acc, vel, pos)
plant_set_state ==
    \E v \in SetterStates :
        PhysicalObjectSetterCall("set_state", v,
            LAMBDA o : PhysicalObject_set_state(o, v[1], v[2], v[3]), FALSE)

\* physical_obj.mass = value: any value is taken
plant_set_mass ==
    \E v \in SetterMasses :
        PhysicalObjectSetterCall("mass", << v >>, LAMBDA o : set_mass(o, v), TRUE)

\* physical_obj.acc = value
plant_set_acc ==
    \E v \in SetterStates :
        PhysicalObjectSetterCall("acc", << v[1] >>, LAMBDA o : set_acc(o, v[1]), FALSE)

\* physical_obj.vel = value
plant_set_vel ==
    \E v \in SetterStates :
        PhysicalObjectSetterCall("vel", << v[2] >>, LAMBDA o : set_vel(o, v[2]), FALSE)

\* physical_obj.pos = value
plant_set_pos ==
    \E v \in SetterStates :
        PhysicalObjectSetterCall("pos", << v[3] >>, LAMBDA o : set_pos(o, v[3]), FALSE)

\* physical_obj.damper = value, on a mass-damper-spring object
plant_set_damper ==
    /\ plant # None /\ plant.type = "MDS"
    /\ \E v \in SetterDampers :
          PhysicalObjectSetterCall("damper", << v >>, LAMBDA o : set_damper(o, v), TRUE)

\* physical_obj.spring = value
plant_set_spring ==
    /\ plant # None /\ plant.type = "MDS"
    /\ \E v \in SetterSprings :
          PhysicalObjectSetterCall("spring", << v >>, LAMBDA o : set_spring(o, v), TRUE)

\* physical_obj.spring_balance_pos = value
plant_set_spring_balance_pos ==
    /\ plant # None /\ plant.type = "MDS"
    /\ \E v \in SetterBalances :
          PhysicalObjectSetterCall("spring_balance_pos", << v >>,
              LAMBDA o : set_spring_balance_pos(o, v), TRUE)

\* physical_obj.static_friction_coeff = value
plant_set_static_friction_coeff ==
    /\ plant # None /\ plant.type = "MDS"
    /\ \E v \in SetterFrictions :
          PhysicalObjectSetterCall("static_friction_coeff", << v >>,
              LAMBDA o : set_static_friction_coeff(o, v), TRUE)

\* physical_obj.dynamic_friction_coeff = value
plant_set_dynamic_friction_coeff ==
    /\ plant # None /\ plant.type = "MDS"
    /\ \E v \in SetterFrictions :
          PhysicalObjectSetterCall("dynamic_friction_coeff", << v >>,
              LAMBDA o : set_dynamic_friction_coeff(o, v), TRUE)

\* a setter call on the DiscreteTime, also while a generator of it is
\* suspended: ValueError, and nothing changes, for a value <= 0
DiscreteTimeSetterCall(name, value, dtime) ==
    /\ Callable /\ discrete_time # None /\ Budget
    /\ discrete_time' = dtime
    /\ outcome' = IF DiscreteTimeSetterRaises(value) THEN "ValueError" ELSE "ok"
    /\ streak' = IF DiscreteTimeSetterRaises(value) THEN streak ELSE StreakBroken(streak)
    /\ op' = name /\ result' = None /\ calls' = calls + 1
    /\ UNCHANGED << controller, plant, motion_profile, pc, locals, recorders,
                    runs, loads, drawn, applied, trace, entry, before, since, twin >>

\* discrete_time.dt = value
discrete_time_set_dt ==
    \E v \in SetterDts :
        DiscreteTimeSetterCall("dt", v, DiscreteTime_set_dt(discrete_time, v))

\* discrete_time.duration = value
discrete_time_set_duration ==
    \E v \in SetterDurations :
        DiscreteTimeSetterCall("duration", v, DiscreteTime_set_duration(discrete_time, v))

(***************************************************************************)
(* The controller of a MotionFlow is handed out by its controller property *)
(* and can be called directly.                                             *)
(***************************************************************************)
\* flow.controller.calculate_force(t, cmd_vel, cmd_pos, vel, pos)
flow_calculate_force ==
    /\ Callable /\ controller # None /\ Budget
    /\ \E a \in FlowCallArgs :
          LET c == calculate_force(controller, a[1], a[2], a[3], a[4], a[5])
          IN  /\ calculate_force_exact(controller, a[1])
              /\ controller' = c
              /\ trace' = << [call |-> "calculate_force", t |-> a[1],
                              cmd_vel |-> a[2], cmd_pos |-> a[3],
                              plant_vel |-> a[4], plant_pos |-> a[5],
                              ret |-> calculate_force_result(c),
                              pre |-> controller] >>
    /\ calls' = calls + 1 /\ op' = "calculate_force"
    /\ outcome' = "ok" /\ result' = None
    /\ UNCHANGED << discrete_time, plant, motion_profile, pc, locals, recorders,
                    runs, loads, drawn, applied, entry, before, since, twin, streak >>

(***************************************************************************)
(* MotionFlow.execute().  With the classes under src/ a call that passes   *)
(* the four tests ends at line 188 (execute_begin).  What follows line 188 *)
(* is reached only with a motion profile that has the get_observer() of    *)
(* the documented observer interface; execute_begin_with_observer and the  *)
(* actions of the loop follow execute() under that assumption, and only    *)
(* FlowSpec takes them.                                                    *)
(***************************************************************************)
\* a plausible slip: the plant and the profile are not tested
AllLoaded_partial == discrete_time # None /\ controller # None

\* the four "is None" tests at the head of execute()
AllLoaded ==
    /\ discrete_time # None /\ controller # None
    /\ plant # None /\ motion_profile # None

\* execute() with a component missing: ValueError, nothing else happens
execute_invalid ==
    /\ pc = "idle" /\ ~AllLoaded
    /\ op' = "execute" /\ outcome' = "ValueError: not loaded" /\ result' = None
    /\ UNCHANGED << components, pc, locals, recorders, history >>

\* self._controller.reset() before the loop
ControllerOnEntry(c) == controller_reset(c)

\* a plausible slip: execute() resets the plant as well
PlantOnEntry_reset(o) == phyobj_reset(o)

\* the plant is not initialised by execute(): that is left to the caller
PlantOnEntry(o) == o

\* execute() with the four components present: the generator is created
\* (line 184, not yet resumed) and time_list is empty (187); line 188 calls
\* self._motion_profile.get_observer(), a method no MotionProfile class
\* defines, and the AttributeError leaves execute() before the controller's
\* reset() (193) and before the loop (199).  No component has changed.
execute_begin ==
    /\ pc = "idle" /\ AllLoaded /\ runs < MaxRuns
    /\ op' = "execute" /\ outcome' = "AttributeError" /\ result' = None
    /\ runs' = runs + 1 /\ drawn' = 0 /\ applied' = 0 /\ trace' = << >>
    /\ entry' = [controller |-> controller, plant |-> plant,
                 motion_profile |-> motion_profile]
    /\ before' = None
    /\ UNCHANGED << components, pc, locals, recorders, loads, calls, since, twin, streak >>

\* execute() up to the loop when the motion profile has a get_observer():
\* the generator, the empty recorders, and the controller's reset(); the
\* plant is left as it is
execute_begin_with_observer ==
    /\ pc = "idle" /\ AllLoaded /\ runs < MaxRuns
    /\ gen_t' = 0
    /\ time_list' = << >>
    /\ motion_prof_observer' = MotionProfileObserver(motion_profile)
    /\ controller_observer' = ControllerObserver(controller)
    /\ phyobj_observer' = PhysicalObjectObserver(plant)
    /\ controller' = ControllerOnEntry(controller)
    /\ plant' = PlantOnEntry(plant)
    /\ pc' = "next"
    /\ op' = "execute" /\ outcome' = "running" /\ result' = None
    /\ runs' = runs + 1 /\ drawn' = 0 /\ applied' = 0 /\ trace' = << >>
    /\ entry' = [controller |-> controller, plant |-> plant,
                 motion_profile |-> motion_profile]
    /\ before' = None
    /\ UNCHANGED << discrete_time, motion_profile, t, cmd_vel, cmd_pos, force,
                    loads, calls, since, twin, streak >>

\* for t in time_steps_gen, the generator yields: time_list.append(t)
loop_next ==
    /\ pc = "next" /\ drawn < MaxSteps
    /\ LET tn == GeneratorResume(discrete_time, gen_t, drawn)
       IN  /\ GeneratorHasNext(discrete_time, tn)
           /\ t' = tn /\ gen_t' = tn
           /\ time_list' = Append(time_list, tn)
    /\ pc' = "profile"
    /\ drawn' = drawn + 1 /\ trace' = << >> /\ before' = plant
    /\ UNCHANGED << components, cmd_vel, cmd_pos, force,
                    motion_prof_observer, controller_observer, phyobj_observer,
                    result, outcome, op, runs, loads, calls, applied, entry, since, twin, streak >>

\* cmd_vel, cmd_pos = calculate_cmd_vel_pos(t); motion_prof_observer.observe()
loop_profile ==
    /\ pc = "profile"
    /\ LET cmd == calculate_cmd_vel_pos(motion_profile, t)
       IN  /\ cmd_vel' = cmd[1] /\ cmd_pos' = cmd[2]
           /\ motion_prof_observer' =
                 MotionProfileObserver_observe(motion_prof_observer, cmd[1], cmd[2])
           /\ trace' = Append(trace, [call |-> "calculate_cmd_vel_pos", t |-> t,
                                      vel |-> cmd[1], pos |-> cmd[2]])
    /\ motion_profile' = profile_after_call(motion_profile)
    /\ pc' = "control"
    /\ UNCHANGED << discrete_time, controller, plant, gen_t, t, force,
                    time_list, controller_observer, phyobj_observer,
                    result, outcome, op, runs, loads, calls, drawn, applied,
                    entry, before, since, twin, streak >>

\* a plausible slip: the controller is given the archived (previous) state
PlantFeedback_prev(o) == << o.prev_vel, o.prev_pos >>

\* the plant state handed to calculate_force: physical_obj.vel, physical_obj.pos
PlantFeedback(o) == << o.vel, o.pos >>

\* force = calculate_force(t, cmd_vel, cmd_pos, vel, pos);
\* controller_observer.observe()
loop_control ==
    /\ pc = "control"
    /\ LET fb == PlantFeedback(plant)
           c  == calculate_force(controller, t, cmd_vel, cmd_pos, fb[1], fb[2])
       IN  /\ controller' = c
           /\ force' = calculate_force_result(c)
           /\ controller_observer' = ControllerObserver_observe(controller_observer, c)
           /\ trace' = Append(trace, [call |-> "calculate_force", t |-> t,
                                      cmd_vel |-> cmd_vel, cmd_pos |-> cmd_pos,
                                      plant_vel |-> fb[1], plant_pos |-> fb[2],
                                      ret |-> calculate_force_result(c)])
    /\ pc' = "plant"
    /\ UNCHANGED << discrete_time, plant, motion_profile, gen_t, t, cmd_vel, cmd_pos,
                    time_list, motion_prof_observer, phyobj_observer,
                    result, outcome, op, runs, loads, calls, drawn, applied,
                    entry, before, since, twin, streak >>

\* the force calculate_force returns to execute() is a numpy scalar, not a
\* Python number: the sinusoidal controller's amplitude * np.sin(...), and
\* the PID force when an operand of its errors is a numpy scalar, which is
\* the command of a trapezoidal profile (whose dir is np.sign(L)) and the
\* plant's vel or pos once a numpy scalar went into them.  The PID's own
\* state is that of the reset() at the head of execute() and of this run.
ForceIsNumpy(c, p, o) ==
    \/ c.type = "sin"
    \/ c.type = "PID" /\ (p.type = "trapezoid" \/ {"vel", "pos"} \cap o.numpy # {})

\* phyobj_observer.observe() (the state at elapsed time t), then
\* apply_force(force, dt)
observe_then_apply(obs, o, f, dt, isnumpy) ==
    [observer |-> PhysicalObjectObserver_observe(obs, o),
     plant |-> apply_force(o, f, dt, isnumpy)]

\* lines 217-220 when apply_force returns: the observation, the new state of
\* the plant, and the loop goes back to the generator
loop_plant_applied ==
    /\ LET r == observe_then_apply(phyobj_observer, plant, force, discrete_time.dt,
                                   ForceIsNumpy(controller, motion_profile, plant))
       IN  phyobj_observer' = r.observer /\ plant' = r.plant
    /\ trace' = Append(trace, [call |-> "apply_force", force |-> force,
                               dt |-> discrete_time.dt])
    /\ applied' = applied + 1
    /\ pc' = "next"
    /\ UNCHANGED << discrete_time, controller, motion_profile, locals,
                    time_list, motion_prof_observer, controller_observer,
                    result, outcome, op, runs, loads, calls, drawn, entry, before, since, twin, streak >>

\* phyobj_observer.observe(); apply_force(force, dt), the mass not 0
loop_plant ==
    /\ pc = "plant" /\ plant.mass # 0
    /\ loop_plant_applied

\* phyobj_observer.observe(); apply_force(force, dt) divides a numpy scalar
\* by the mass 0: acc is nan or an infinity (RuntimeWarning, no exception),
\* and vel and pos follow from it; execute() goes on with the next instant
loop_plant_nonfinite ==
    /\ pc = "plant" /\ plant.mass = 0
    /\ ~apply_force_raises(plant, ForceIsNumpy(controller, motion_profile, plant))
    /\ loop_plant_applied

\* phyobj_observer.observe(); apply_force(force, dt) divides a Python number
\* by the mass 0: the ZeroDivisionError leaves execute(), whose locals are
\* gone
loop_plant_raises ==
    /\ pc = "plant"
    /\ apply_force_raises(plant, ForceIsNumpy(controller, motion_profile, plant))
    /\ plant' = apply_force_raised(plant, force, discrete_time.dt)
    /\ result' = None /\ outcome' = "ZeroDivisionError"
    /\ pc' = "idle"
    /\ gen_t' = 0 /\ t' = 0 /\ cmd_vel' = 0 /\ cmd_pos' = 0 /\ force' = 0
    /\ time_list' = << >>
    /\ motion_prof_observer' = NoObserver
    /\ controller_observer' = NoObserver
    /\ phyobj_observer' = NoObserver
    /\ trace' = << >> /\ before' = None
    /\ UNCHANGED << discrete_time, controller, motion_profile,
                    op, runs, loads, calls, drawn, applied, entry, since, twin, streak >>

\* MotionProfile observer's get_observed_data()
MotionProfileObserver_get_observed_data(obs) ==
    [cmd_velocity_m_s |-> obs.cmd_vel, cmd_position_m |-> obs.cmd_pos]

\* ControllerObserver.get_observed_data / PIDControllerObserver.get_observed_data
ControllerObserver_get_observed_data(obs, c) ==
    IF c.type = "PID"
    THEN [velocity_error_m_s |-> obs.vel_error, position_error_m |-> obs.pos_error,
          vel_error_cumsum_m_s |-> obs.vel_error_cumsum,
          pos_error_cumsum_m |-> obs.pos_error_cumsum,
          vel_error_diff_m_s |-> obs.vel_error_diff,
          pos_error_diff_m |-> obs.pos_error_diff,
          force_N |-> obs.force]
    ELSE [force_N |-> obs.force]

\* PhysicalObjectObserver.get_observation_data /
\* MDSPhysicalObjectObserver.get_observation_data
PhysicalObjectObserver_get_observation_data(obs, o) ==
    IF o.type = "MDS"
    THEN [obj_acceleration_m_s2 |-> obs.acc, obj_velocity_m_s |-> obs.vel,
          obj_position_m |-> obs.pos, damper_force_N |-> obs.damper_force,
          spring_force_N |-> obs.spring_force, net_force_N |-> obs.net_force]
    ELSE [obj_acceleration_m_s2 |-> obs.acc, obj_velocity_m_s |-> obs.vel,
          obj_position_m |-> obs.pos]

\* history: what execute() had recorded when it ended
Recorded ==
    [call |-> "execute",
     time_s |-> time_list,
     motion_profile |-> MotionProfileObserver_get_observed_data(motion_prof_observer),
     controller |-> ControllerObserver_get_observed_data(controller_observer, controller),
     physical_obj |-> PhysicalObjectObserver_get_observation_data(phyobj_observer, plant)]

\* the generator is exhausted: the DataFrame is begun with time_s and takes
\* the columns of the motion profile and of the controller (lines 223-233);
\* line 235 calls phyobj_observer.get_observed_data(), which neither
\* PhysicalObjectObserver nor MDSPhysicalObjectObserver defines (their dump
\* is get_observation_data): the AttributeError leaves execute(), whose
\* locals, the DataFrame among them, are gone
execute_finish ==
    /\ pc = "next"
    /\ ~GeneratorHasNext(discrete_time, GeneratorResume(discrete_time, gen_t, drawn))
    /\ result' = None /\ outcome' = "AttributeError"
    /\ pc' = "idle"
    /\ gen_t' = 0 /\ t' = 0 /\ cmd_vel' = 0 /\ cmd_pos' = 0 /\ force' = 0
    /\ time_list' = << >>
    /\ motion_prof_observer' = NoObserver
    /\ controller_observer' = NoObserver
    /\ phyobj_observer' = NoObserver
    /\ trace' = << Recorded >> /\ before' = None
    /\ UNCHANGED << components, op, runs, loads, calls, drawn, applied, entry, since, twin, streak >>

Next ==
    \/ load_discrete_time
    \/ load_motion_profile
    \/ load_controller
    \/ load_plant
    \/ plant_reset
    \/ plant_set_state
    \/ plant_set_mass
    \/ plant_set_acc
    \/ plant_set_vel
    \/ plant_set_pos
    \/ plant_set_damper
    \/ plant_set_spring
    \/ plant_set_spring_balance_pos
    \/ plant_set_static_friction_coeff
    \/ plant_set_dynamic_friction_coeff
    \/ discrete_time_set_dt
    \/ discrete_time_set_duration
    \/ flow_calculate_force
    \/ execute_invalid
    \/ execute_begin

Spec == Init /\ [][Next]_vars

\* the MotionFlow whose motion profile has the observer of the documented
\* interface
FlowNext ==
    \/ load_discrete_time
    \/ load_motion_profile
    \/ load_controller
    \/ load_plant
    \/ plant_reset
    \/ plant_set_state
    \/ plant_set_mass
    \/ plant_set_acc
    \/ plant_set_vel
    \/ plant_set_pos
    \/ plant_set_damper
    \/ plant_set_spring
    \/ plant_set_spring_balance_pos
    \/ plant_set_static_friction_coeff
    \/ plant_set_dynamic_friction_coeff
    \/ discrete_time_set_dt
    \/ discrete_time_set_duration
    \/ execute_invalid
    \/ execute_begin_with_observer
    \/ loop_next
    \/ loop_profile
    \/ loop_control
    \/ loop_plant
    \/ loop_plant_nonfinite
    \/ loop_plant_raises
    \/ execute_finish

FlowSpec == Init /\ [][FlowNext]_vars

(***************************************************************************)
(* Component-level specification: one component, constructed from one of   *)
(* the configurations, receives direct calls of its public methods.        *)
(* trace holds the last call: its arguments and the object before it.      *)
(***************************************************************************)
UnitForces == {-4, 0, 2, 4}

UnitDts == {2, 4}

UnitTimes == {0, 2, 6}

\* (command, plant) pairs for velocity and for position
UnitVelPairs == { <<0, 0>>, <<2, 0>>, <<0, 2>> }

UnitPosPairs == { <<0, 0>>, <<4, 0>>, <<2, 6>> }

\* a mass-damper-spring without damper and spring, masses that are not
\* positive, and entries with a key missing (the version among them)
UnitPhysicalObjectConfigs ==
    { [version |-> << 0, 2, 0 >>, type |-> "MDS", mass_kg |-> 2, damper_Ns_m |-> 0,
                                  spring_N_m |-> 0, spring_balance_pos_m |-> 0,
                                  static_friction_coeff |-> 0,
                                  dynamic_friction_coeff |-> 0],
      [version |-> << 0, 2, 0 >>, type |-> "mass", mass_kg |-> -2],
      [version |-> << 0, 2, 0 >>, type |-> "MDS", mass_kg |-> 0, damper_Ns_m |-> 1,
                                  spring_N_m |-> 2, spring_balance_pos_m |-> 1,
                                  static_friction_coeff |-> 0,
                                  dynamic_friction_coeff |-> 0],
      [version |-> << 0, 2, 0 >>, type |-> "mass"],
      [version |-> << 0, 2, 0 >>, type |-> "MDS", damper_Ns_m |-> 1,
                                  spring_N_m |-> 2, spring_balance_pos_m |-> 1,
                                  static_friction_coeff |-> 0,
                                  dynamic_friction_coeff |-> 0],
      [version |-> << 0, 2, 0 >>, type |-> "MDS", mass_kg |-> 1,
                                  spring_N_m |-> 2, spring_balance_pos_m |-> 1,
                                  static_friction_coeff |-> 0,
                                  dynamic_friction_coeff |-> 0],
      [version |-> << 0, 2, 0 >>, type |-> "MDS", mass_kg |-> 1, damper_Ns_m |-> 1,
                                  spring_balance_pos_m |-> 1,
                                  static_friction_coeff |-> 0,
                                  dynamic_friction_coeff |-> 0],
      [version |-> << 0, 2, 0 >>, type |-> "MDS", mass_kg |-> 1, damper_Ns_m |-> 1,
                                  spring_N_m |-> 2,
                                  static_friction_coeff |-> 0,
                                  dynamic_friction_coeff |-> 0],
      [version |-> << 0, 2, 0 >>, type |-> "MDS", mass_kg |-> 1, damper_Ns_m |-> 1,
                                  spring_N_m |-> 2, spring_balance_pos_m |-> 1],
      [type |-> "mass", mass_kg |-> 1],
      [version |-> << 1, 0, 0 >>, type |-> "MDS", mass_kg |-> 1, damper_Ns_m |-> 1,
                                  spring_N_m |-> 2, spring_balance_pos_m |-> 1,
                                  static_friction_coeff |-> 0,
                                  dynamic_friction_coeff |-> 0] }

\* the plant configurations of the flow, plant configurations around these
\* entries, one without a physical_object list and one whose list is empty
UnitPlantConfigs ==
    PlantConfigs
    \cup { [version |-> << 0, 3, 0 >>, physical_object |-> << po >>] :
             po \in UnitPhysicalObjectConfigs }
    \cup { [version |-> << 0, 3, 0 >>],
           [version |-> << 0, 3, 0 >>, physical_object |-> << >>] }

UnitPlants == { PlantLoader_load(c) : c \in UnitPlantConfigs } \ {None}

\* the controllers of the flow, a PID whose six gains all differ, and a
\* sinusoidal controller of 1/8 Hz
UnitControllerConfigs ==
    ControllerConfigs \cup
    { [version |-> << 0, 3, 0 >>, type |-> "PID", kvp |-> 1, kvi |-> 2, kvd |-> 3,
                                  kpp |-> 5, kpi |-> 7, kpd |-> 11],
      [version |-> << 0, 3, 0 >>, type |-> "sin", amplitude_N |-> 4,
                                  frequency_Hz |-> << 1, 8 >>] }

UnitControllers == { ControllerLoader_load(c) : c \in UnitControllerConfigs } \ {None}

\* every DiscreteTime the loader hands out
UnitDiscreteTimes == { DiscreteTimeLoader_load(c) : c \in DiscreteTimeConfigs } \ {None}

\* the profiles of the flow, a trapezoid that moves backwards, and one too
\* short to reach its maximum velocity
UnitProfileConfigs ==
    MotionProfileConfigs \cup
    { [version |-> << 0, 1, 0 >>, type |-> "trapezoid", max_velocity_m_s |-> 4,
                                  acceleration_m_s2 |-> 2, length_m |-> -16],
      [version |-> << 0, 1, 0 >>, type |-> "trapezoid", max_velocity_m_s |-> 8,
                                  acceleration_m_s2 |-> 2, length_m |-> 8] }

UnitProfiles == { MotionProfileLoader_load(c) : c \in UnitProfileConfigs } \ {None}

\* the instants handed to calculate_cmd_vel_pos
UnitProfileTimes == 0 .. 8

UnitInit ==
    /\ \/ plant \in UnitPlants /\ controller = None
          /\ motion_profile = None /\ discrete_time = None
          /\ twin = [fresh |-> plant, now |-> plant]
       \/ plant = None /\ controller \in UnitControllers
          /\ motion_profile = None /\ discrete_time = None
          /\ twin = [fresh |-> controller, now |-> controller]
       \/ plant = None /\ controller = None
          /\ motion_profile \in UnitProfiles /\ discrete_time = None
          /\ twin = None
       \/ plant = None /\ controller = None
          /\ motion_profile = None /\ discrete_time \in UnitDiscreteTimes
          /\ twin = None
       \/ plant = None /\ controller = None
          /\ motion_profile = None /\ discrete_time = None
          /\ twin = None
    /\ Fresh

\* PlantLoader.load called directly, before anything else is constructed
unit_PlantLoader_load ==
    /\ op = "init"
    /\ plant = None /\ controller = None /\ motion_profile = None /\ discrete_time = None
    /\ \E config \in UnitPlantConfigs :
          LET o == PlantLoader_load(config)
          IN  /\ plant' = o
              /\ twin' = IF o = None THEN None ELSE [fresh |-> o, now |-> o]
              /\ outcome' = IF o = None THEN PlantLoader_load_exception(config)
                            ELSE "Plant"
              /\ trace' = << [call |-> "PlantLoader.load", config |-> config] >>
    /\ op' = "PlantLoader.load"
    /\ UNCHANGED << discrete_time, controller, motion_profile, pc, locals, recorders,
                    result, runs, loads, calls, drawn, applied, entry, before, since,
                    streak >>

unit_apply_force ==
    /\ plant # None /\ calls < MaxCalls
    /\ ~apply_force_raises(plant, FALSE)
    /\ \E f \in UnitForces, dt \in UnitDts :
          /\ plant' = apply_force(plant, f, dt, FALSE)
          /\ trace' = << [call |-> "apply_force", force |-> f, dt |-> dt,
                          pre |-> plant] >>
          /\ twin' = [twin EXCEPT !.now = apply_force(@, f, dt, FALSE)]
          /\ streak' = StreakAfter(streak, << f, dt >>)
    /\ calls' = calls + 1 /\ op' = "apply_force"
    /\ UNCHANGED << discrete_time, controller, motion_profile, pc, locals, recorders,
                    result, outcome, runs, loads, drawn, applied, entry, before, since >>

\* apply_force called directly, with a Python number, on an object whose
\* mass is 0: ZeroDivisionError
unit_apply_force_raises ==
    /\ plant # None /\ calls < MaxCalls
    /\ apply_force_raises(plant, FALSE)
    /\ \E f \in UnitForces, dt \in UnitDts :
          /\ plant' = apply_force_raised(plant, f, dt)
          /\ trace' = << [call |-> "apply_force", force |-> f, dt |-> dt,
                          pre |-> plant] >>
          /\ twin' = [twin EXCEPT !.now = apply_force_raised(@, f, dt)]
    /\ calls' = calls + 1 /\ op' = "apply_force raises"
    /\ outcome' = "ZeroDivisionError"
    /\ UNCHANGED << discrete_time, controller, motion_profile, pc, locals, recorders,
                    result, runs, loads, drawn, applied, entry, before, since, streak >>

unit_plant_reset ==
    /\ plant # None
    /\ plant' = phyobj_reset(plant)
    /\ trace' = << [call |-> "reset", pre |-> plant] >>
    /\ twin' = [twin EXCEPT !.now = twin.fresh] /\ streak' = NoStreak
    /\ op' = "reset"
    /\ UNCHANGED << discrete_time, controller, motion_profile, pc, locals, recorders,
                    result, outcome, runs, loads, calls, drawn, applied, entry, before, since >>

unit_calculate_force ==
    /\ controller # None /\ calls < MaxCalls
    /\ \E tt \in UnitTimes, v \in UnitVelPairs, x \in UnitPosPairs :
          LET c == calculate_force(controller, tt, v[1], x[1], v[2], x[2])
          IN  /\ calculate_force_exact(controller, tt)
              /\ controller' = c
              /\ trace' = << [call |-> "calculate_force", t |-> tt,
                              cmd_vel |-> v[1], cmd_pos |-> x[1],
                              plant_vel |-> v[2], plant_pos |-> x[2],
                              ret |-> calculate_force_result(c),
                              pre |-> controller] >>
              /\ since' = IF tt >= controller.delay_s THEN since + 1 ELSE since
              /\ twin' = [twin EXCEPT
                              !.now = calculate_force(@, tt, v[1], x[1], v[2], x[2])]
              /\ streak' = StreakAfter(streak, << v[1] - v[2] >>)
    /\ calls' = calls + 1 /\ op' = "calculate_force"
    /\ UNCHANGED << discrete_time, plant, motion_profile, pc, locals, recorders,
                    result, outcome, runs, loads, drawn, applied, entry, before >>

unit_controller_reset ==
    /\ controller # None
    /\ controller' = controller_reset(controller)
    /\ trace' = << [call |-> "reset", pre |-> controller] >>
    /\ op' = "reset" /\ since' = 0
    /\ twin' = [twin EXCEPT !.now = twin.fresh] /\ streak' = NoStreak
    /\ UNCHANGED << discrete_time, plant, motion_profile, pc, locals, recorders,
                    result, outcome, runs, loads, calls, drawn, applied, entry, before >>

\* calculate_cmd_vel_pos called directly
unit_calculate_cmd_vel_pos ==
    /\ motion_profile # None /\ calls < MaxCalls
    /\ \E tt \in UnitProfileTimes :
          LET cmd == calculate_cmd_vel_pos(motion_profile, tt)
          IN  /\ cmd_vel' = cmd[1] /\ cmd_pos' = cmd[2]
              /\ trace' = << [call |-> "calculate_cmd_vel_pos", t |-> tt,
                              vel |-> cmd[1], pos |-> cmd[2],
                              pre |-> motion_profile] >>
    /\ motion_profile' = profile_after_call(motion_profile)
    /\ calls' = calls + 1 /\ op' = "calculate_cmd_vel_pos"
    /\ UNCHANGED << discrete_time, controller, plant, pc, gen_t, t, force, recorders,
                    result, outcome, runs, loads, drawn, applied, entry, before, since, twin, streak >>

\* get_time_step_generator(): a new generator, whatever became of the last
\* one; time_list collects what it yields
unit_get_time_step_generator ==
    /\ discrete_time # None /\ calls < MaxCalls
    /\ gen_t' = 0 /\ time_list' = << >> /\ drawn' = 0
    /\ pc' = "generator" /\ op' = "get_time_step_generator"
    /\ calls' = calls + 1 /\ outcome' = "generator" /\ streak' = NoStreak
    /\ UNCHANGED << components, t, cmd_vel, cmd_pos, force,
                    motion_prof_observer, controller_observer, phyobj_observer,
                    result, runs, loads, applied, trace, entry, before, since, twin >>

\* next() on the generator: it resumes (the increment, save on the first
\* next()), the loop test holds, t is yielded and the generator is suspended
unit_generator_yield ==
    /\ pc = "generator" /\ drawn < MaxSteps
    /\ LET tn == GeneratorResume(discrete_time, gen_t, drawn)
       IN  /\ GeneratorHasNext(discrete_time, tn)
           /\ t' = tn /\ gen_t' = tn
           /\ time_list' = Append(time_list, tn)
    /\ drawn' = drawn + 1 /\ op' = "next" /\ outcome' = "yield"
    /\ UNCHANGED << components, pc, cmd_vel, cmd_pos, force,
                    motion_prof_observer, controller_observer, phyobj_observer,
                    result, runs, loads, calls, applied, trace, entry, before, since, twin, streak >>

\* next() on the generator: it resumes, the loop test fails, the generator
\* is exhausted
unit_generator_stop ==
    /\ pc = "generator"
    /\ ~GeneratorHasNext(discrete_time, GeneratorResume(discrete_time, gen_t, drawn))
    /\ gen_t' = GeneratorResume(discrete_time, gen_t, drawn)
    /\ pc' = "exhausted" /\ op' = "next" /\ outcome' = "StopIteration"
    /\ UNCHANGED << components, t, cmd_vel, cmd_pos, force, recorders,
                    result, runs, loads, calls, drawn, applied, trace, entry, before, since, twin, streak >>

UnitNext ==
    \/ unit_PlantLoader_load
    \/ unit_apply_force
    \/ unit_apply_force_raises
    \/ unit_plant_reset
    \/ plant_set_state
    \/ plant_set_mass
    \/ plant_set_acc
    \/ plant_set_vel
    \/ plant_set_pos
    \/ plant_set_damper
    \/ plant_set_spring
    \/ plant_set_spring_balance_pos
    \/ plant_set_static_friction_coeff
    \/ plant_set_dynamic_friction_coeff
    \/ discrete_time_set_dt
    \/ discrete_time_set_duration
    \/ unit_calculate_force
    \/ unit_controller_reset
    \/ unit_calculate_cmd_vel_pos
    \/ unit_get_time_step_generator
    \/ unit_generator_yield
    \/ unit_generator_stop

UnitSpec == UnitInit /\ [][UnitNext]_vars

(***************************************************************************)
(* The example scenario: dt = 0.01 s, duration = 1.0 s, trapezoid with     *)
(* V = 1.0 m/s, A = 2.0 m/s^2, L = 1.0 m, the base Controller and a single *)
(* mass of 1.0 kg, loaded into a MotionFlow.  Here one unit of time is     *)
(* 0.01 s and one unit of length 0.0001 m, so V = 100, A = 2, L = 10000,   *)
(* dt = 1, duration = 100.  The caller calls execute() (execute_begin),    *)
(* and it uses the flow's DiscreteTime and motion profile directly: it     *)
(* draws the instants from a generator and asks the profile for the        *)
(* command at an instant drawn.                                            *)
(*                                                                         *)
(* The generator adds the binary64 number dt to t again and again, and     *)
(* each sum is rounded to 53 significant bits.  The generator's t is kept  *)
(* exactly: an integer in units of 2^-59 s, written as three digits of     *)
(* base 2^20, most significant first (every t of the example is below      *)
(* 2^60 units).  The profile is evaluated at the nominal instant k * 0.01; *)
(* the float differs from it by less than 10^-15 s and lies in the same    *)
(* phase of the profile.                                                   *)
(***************************************************************************)
FloatBase == 1048576

\* the significant bits of a binary64 number
FloatMantissaBits == 53

RECURSIVE BitLength(_)
BitLength(n) == IF n = 0 THEN 0 ELSE 1 + BitLength(n \div 2)

\* the digits after the carries are passed on
FloatCarry(d) ==
    LET c3 == d[3] \div FloatBase
        c2 == (d[2] + c3) \div FloatBase
    IN  << d[1] + c2, (d[2] + c3) % FloatBase, d[3] % FloatBase >>

\* the number of bits of the integer d
FloatBits(d) ==
    IF d[1] > 0 THEN 40 + BitLength(d[1])
    ELSE IF d[2] > 0 THEN 20 + BitLength(d[2])
    ELSE BitLength(d[3])

\* rounding to 53 significant bits, to nearest and to even on a tie
FloatRound(d) ==
    LET s == FloatBits(d) - FloatMantissaBits
    IN  IF s <= 0 THEN d
        ELSE LET q == 2 ^ s
                 r == d[3] % q
             IN  IF 2 * r > q \/ (2 * r = q /\ (d[3] \div q) % 2 = 1)
                 THEN FloatCarry(<< d[1], d[2], d[3] - r + q >>)
                 ELSE << d[1], d[2], d[3] - r >>

\* a + b of two binary64 numbers >= 0
FloatAdd(a, b) == FloatRound(FloatCarry(<< a[1] + b[1], a[2] + b[2], a[3] + b[3] >>))

\* a <= b
FloatLeq(a, b) ==
    \/ a[1] < b[1]
    \/ a[1] = b[1] /\ a[2] < b[2]
    \/ a[1] = b[1] /\ a[2] = b[2] /\ a[3] <= b[3]

\* the example's dt: float(10000) / 1000000.0 is the binary64 number
\* 5764607523034235 * 2^-59, the nearest to 0.01
ExampleFloatDt == << 5242, 922746, 922747 >>

\* the example's duration: float(1.0) is 2^59 units
ExampleFloatDuration == << 524288, 0, 0 >>

ExampleDiscreteTime == [dt |-> 1, duration |-> 100]

ExampleMotionProfile ==
    MotionProfileLoader_load(
        [version |-> << 0, 1, 0 >>, type |-> "trapezoid", max_velocity_m_s |-> 100,
         acceleration_m_s2 |-> 2, length_m |-> 10000])

ExampleController == ControllerLoader_load([version |-> << 0, 3, 0 >>, type |-> "none"])

ExamplePlant ==
    PlantLoader_load(
        [version |-> << 0, 3, 0 >>,
         physical_object |-> << [version |-> << 0, 2, 0 >>, type |-> "mass",
                                 mass_kg |-> 1] >>])

\* the four components are loaded
ExampleInit ==
    /\ discrete_time = ExampleDiscreteTime /\ controller = ExampleController
    /\ plant = ExamplePlant /\ motion_profile = ExampleMotionProfile
    /\ twin = None
    /\ Fresh

\* flow.discrete_time.get_time_step_generator(): a new generator; time_list
\* collects the nominal instants it yields
example_get_time_step_generator ==
    /\ pc = "idle" /\ discrete_time # None
    /\ gen_t' = << 0, 0, 0 >> /\ time_list' = << >> /\ drawn' = 0
    /\ pc' = "generator" /\ op' = "get_time_step_generator"
    /\ outcome' = "generator" /\ result' = None
    /\ UNCHANGED << components, t, cmd_vel, cmd_pos, force,
                    motion_prof_observer, controller_observer, phyobj_observer,
                    runs, loads, calls, applied, trace, entry, before, since, twin, streak >>

\* the generator's t when next() brings it to the loop test
ExampleGeneratorResume(gt, n) ==
    IF n = 0 THEN << 0, 0, 0 >> ELSE FloatAdd(gt, ExampleFloatDt)

\* next() on the generator: the loop test t <= duration holds and t is
\* yielded, the instant that is nominally drawn * 0.01 s
example_generator_yield ==
    /\ pc = "generator"
    /\ LET tn == ExampleGeneratorResume(gen_t, drawn)
       IN  /\ FloatLeq(tn, ExampleFloatDuration)
           /\ gen_t' = tn
    /\ t' = drawn * discrete_time.dt
    /\ time_list' = Append(time_list, drawn * discrete_time.dt)
    /\ drawn' = drawn + 1 /\ op' = "next" /\ outcome' = "yield"
    /\ UNCHANGED << components, pc, cmd_vel, cmd_pos, force,
                    motion_prof_observer, controller_observer, phyobj_observer,
                    result, runs, loads, calls, applied, trace, entry, before, since,
                    twin, streak >>

\* next() on the generator: the loop test fails, the generator is exhausted
example_generator_stop ==
    /\ pc = "generator"
    /\ ~FloatLeq(ExampleGeneratorResume(gen_t, drawn), ExampleFloatDuration)
    /\ gen_t' = ExampleGeneratorResume(gen_t, drawn)
    /\ pc' = "exhausted" /\ op' = "next" /\ outcome' = "StopIteration"
    /\ UNCHANGED << components, t, cmd_vel, cmd_pos, force, recorders,
                    result, runs, loads, calls, drawn, applied, trace, entry, before,
                    since, twin, streak >>

\* flow.mprof.calculate_cmd_vel_pos(t) at the instant the generator has
\* just yielded
example_calculate_cmd_vel_pos ==
    /\ pc = "generator" /\ drawn > 0 /\ op = "next"
    /\ LET cmd == calculate_cmd_vel_pos(motion_profile, t)
       IN  /\ cmd_vel' = cmd[1] /\ cmd_pos' = cmd[2]
           /\ trace' = << [call |-> "calculate_cmd_vel_pos", t |-> t,
                           vel |-> cmd[1], pos |-> cmd[2],
                           pre |-> motion_profile] >>
    /\ motion_profile' = profile_after_call(motion_profile)
    /\ op' = "calculate_cmd_vel_pos" /\ outcome' = "ok"
    /\ UNCHANGED << discrete_time, controller, plant, pc, gen_t, t, force, recorders,
                    result, runs, loads, calls, drawn, applied, entry, before, since,
                    twin, streak >>

ExampleNext ==
    \/ execute_begin
    \/ example_get_time_step_generator
    \/ example_generator_yield
    \/ example_generator_stop
    \/ example_calculate_cmd_vel_pos

ExampleSpec == ExampleInit /\ [][ExampleNext]_vars

\* what the example's DiscreteTime and profile give: the generator yields
\* the 100 instants 0.00 to 0.99 (the 100th sum is 2^59 + 384 units,
\* 1.0000000000000007 > 1.0), and at the last of them the profile, whose
\* total time is 1.5 s, commands the velocity 1.0 and the position 0.74
ExampleInstants ==
    /\ motion_profile.Ta = 50 /\ motion_profile.Tc = 50 /\ motion_profile.T = 150
    /\ pc = "generator" => drawn <= 100
    /\ pc = "exhausted" =>
          /\ drawn = 100 /\ Len(time_list) = 100 /\ Last(time_list) = 99
          /\ gen_t = << 524288, 0, 384 >>
          /\ calculate_cmd_vel_pos(motion_profile, Last(time_list)) = << 100, 7400 >>

(***************************************************************************)
(* The integer arithmetic is the real arithmetic: every division the code  *)
(* is about to perform is exact.                                           *)
(***************************************************************************)
ExactFor(o, f, dt) ==
    LET nf == IF o.type = "MDS"
              THEN f - o.damper * o.vel - o.spring * (o.pos - o.spring_balance_pos)
              ELSE f
    IN  o.mass # 0 =>
           /\ nf % Abs(o.mass) = 0
           /\ (Quot(nf, o.mass) * dt * dt) % 2 = 0

ExactArithmetic ==
    /\ pc = "plant" => ExactFor(plant, force, discrete_time.dt)
    /\ (pc = "idle" /\ plant # None /\ runs = 0) =>
          \A f \in UnitForces, dt \in UnitDts : ExactFor(plant, f, dt)

C2_SingleMassStep ==
    (op = "apply_force" /\ plant.type = "mass") =>
        LET c == trace[1]
            o == c.pre
        IN  /\ plant.acc * plant.mass = c.force
            /\ plant.prev_vel = o.vel
            /\ plant.vel = o.vel + plant.acc * c.dt
            /\ 2 * (plant.pos - o.pos - o.vel * c.dt) = plant.acc * c.dt * c.dt

\* a moving single mass heavier than 1 has been pushed
C2_Witness ==
    /\ op = "apply_force" /\ plant.type = "mass" /\ plant.mass = 2
    /\ trace[1].pre.vel # 0 /\ trace[1].force # 0 /\ plant.vel # trace[1].pre.vel

\* C3: MDSPhysicalObject.apply_force(ex_force, dt): damper and spring force
\* come from the pre-call velocity and position, net_force is their sum with
\* ex_force, and acc, vel and pos are each updated exactly once with it, so
\* prev_acc, prev_vel and prev_pos are the pre-call acc, vel and pos.
C3_MDSStep ==
    (op = "apply_force" /\ plant.type = "MDS") =>
        LET c == trace[1]
            o == c.pre
        IN  /\ plant.damper_force = - (o.damper * o.vel)
            /\ plant.spring_force = - (o.spring * (o.pos - o.spring_balance_pos))
            /\ plant.net_force = c.force + plant.damper_force + plant.spring_force
            /\ plant.acc * plant.mass = plant.net_force
            /\ plant.vel = o.vel + plant.acc * c.dt
            /\ 2 * (plant.pos - o.pos - o.vel * c.dt) = plant.acc * c.dt * c.dt
            /\ plant.prev_acc = o.acc /\ plant.prev_vel = o.vel
            /\ plant.prev_pos = o.pos

\* a moving mass-damper-spring away from the balance position has been pushed
C3_Witness ==
    /\ op = "apply_force" /\ plant.type = "MDS"
    /\ trace[1].force # 0 /\ trace[1].pre.vel # 0 /\ trace[1].pre.acc # 0
    /\ trace[1].pre.pos # trace[1].pre.spring_balance_pos
    /\ plant.damper_force # 0 /\ plant.spring_force # 0

\* C4: PIDController.calculate_force: vel_error = cmd_vel - plant_vel is
\* added to vel_error_cumsum, vel_error_diff = vel_error - (the previous
\* call's vel_error, 0 after reset()), the same for the position error, and
\* the force returned and stored is the six-term sum, with no clamping and
\* no division by dt.
C4_PIDForce ==
    (op = "calculate_force" /\ controller.type = "PID") =>
        LET c == trace[1]
            k == c.pre
        IN  /\ controller.vel_error = c.cmd_vel - c.plant_vel
            /\ controller.vel_error_cumsum = k.vel_error_cumsum + controller.vel_error
            /\ controller.vel_error_diff = controller.vel_error - k.vel_error
            /\ controller.pos_error = c.cmd_pos - c.plant_pos
            /\ controller.pos_error_cumsum = k.pos_error_cumsum + controller.pos_error
            /\ controller.pos_error_diff = controller.pos_error - k.pos_error
            /\ c.ret = controller.force
            /\ c.ret = controller.kvp * controller.vel_error
                       + controller.kvi * controller.vel_error_cumsum
                       + controller.kvd * controller.vel_error_diff
                       + controller.kpp * controller.pos_error
                       + controller.kpi * controller.pos_error_cumsum
                       + controller.kpd * controller.pos_error_diff

\* the third call in a row on the PID with six different gains, the
\* accumulated errors beyond any small limit
C4_Witness ==
    /\ op = "calculate_force" /\ controller.type = "PID" /\ controller.kpd = 11
    /\ calls = MaxCalls
    /\ trace[1].pre.vel_error # 0 /\ trace[1].pre.pos_error # 0
    /\ controller.vel_error_cumsum > 4 /\ controller.pos_error_cumsum # 0
    /\ controller.pos_error_diff # 0 /\ trace[1].ret # 0

(***************************************************************************)
(* Properties of a whole execute()                                         *)
(***************************************************************************)
\* C5: if any one of the four components is absent when execute() is called,
\* execute() fails with an error before any step executes: no instant is
\* drawn, the controller is not reset, the profile is not evaluated and the
\* plant's state is unchanged.
C5_FailFast ==
    [][(pc = "idle" /\ op' = "execute"
        /\ (discrete_time = None \/ controller = None
            \/ plant = None \/ motion_profile = None))
       => /\ pc' = "idle" /\ outcome' = "ValueError: not loaded"
          /\ UNCHANGED << components, locals, recorders, runs, drawn, applied, trace >>
      ]_vars

\* execute() was refused for the missing motion profile although a PID
\* controller with accumulated error and a moving plant were present
C5_Witness ==
    /\ op = "execute" /\ outcome = "ValueError: not loaded"
    /\ motion_profile = None /\ discrete_time # None
    /\ controller # None /\ controller.type = "PID"
    /\ controller.vel_error_cumsum # 0 /\ controller.prev_pos_error # 0
    /\ plant # None /\ plant.vel # 0

\* When the loop is at the generator, every recorder holds one entry per
\* instant drawn in this run.
RecordedLengths ==
    pc = "next" =>
        /\ Len(time_list) = drawn
        /\ \A k \in DOMAIN MotionProfileObserver_get_observed_data(motion_prof_observer) :
              Len(MotionProfileObserver_get_observed_data(motion_prof_observer)[k]) = drawn
        /\ \A k \in DOMAIN ControllerObserver_get_observed_data(controller_observer, controller) :
              Len(ControllerObserver_get_observed_data(controller_observer, controller)[k]) = drawn
        /\ \A k \in DOMAIN PhysicalObjectObserver_get_observation_data(phyobj_observer, plant) :
              Len(PhysicalObjectObserver_get_observation_data(phyobj_observer, plant)[k]) = drawn

C8_ControllerResetPerRun ==
    (op = "execute" /\ pc = "idle" /\ outcome # "ValueError: not loaded"
       /\ applied = 0) =>
        /\ controller.type = "PID" =>
              /\ controller.vel_error_cumsum = 0 /\ controller.pos_error_cumsum = 0
              /\ controller.prev_vel_error = 0 /\ controller.prev_pos_error = 0
        /\ controller.type = "impulse" => controller.step_counter = 0

C10_StepsAsInstants ==
    (op = "execute" /\ pc = "idle" /\ outcome # "ValueError: not loaded") =>
        /\ discrete_time.dt > 0 \/ discrete_time.duration < 0
        /\ applied = IF discrete_time.duration < 0 THEN 0
                     ELSE Quot(discrete_time.duration, discrete_time.dt) + 1

(***************************************************************************)
(* Properties of DiscreteTime                                              *)
(***************************************************************************)
\* C11: get_time_step_generator() yields a finite sequence whose first value
\* is 0, whose consecutive values differ by exactly dt, and which contains a
\* value exactly when it is <= duration (so every value yielded is strictly
\* nearer to the end than the one before); every call returns a fresh
\* generator that starts again at 0.  (Stated of a generator during whose
\* life neither dt nor duration is set anew.)
C11_GeneratorSequence ==
    /\ op = "get_time_step_generator" => gen_t = 0 /\ time_list = << >>
    /\ (pc \in {"generator", "exhausted"} /\ streak.same) =>
          /\ Len(time_list) = drawn
          /\ drawn >= 1 => time_list[1] = 0
          /\ \A i \in 1..drawn : time_list[i] <= discrete_time.duration
          /\ \A i \in 1..(drawn - 1) :
                /\ time_list[i + 1] - time_list[i] = discrete_time.dt
                /\ discrete_time.duration - time_list[i + 1]
                      < discrete_time.duration - time_list[i]
          /\ pc = "exhausted" => gen_t > discrete_time.duration

\* C12 as stated: for dt > 0 and duration > 0 the instants produced include
\* the first instant k*dt that is >= duration, also when it lies past
\* duration.  (Stated, like the next, of a generator during whose life
\* neither dt nor duration is set anew.)
C12_IncludesFirstPast ==
    (pc = "exhausted" /\ streak.same
       /\ discrete_time.dt > 0 /\ discrete_time.duration > 0) =>
        \E i \in 1..Len(time_list) : time_list[i] >= discrete_time.duration

\* C12 as the code has it: for dt > 0 and duration > 0 every instant
\* produced is <= duration and the sequence ends with the last such
\* instant; the first instant k*dt >= duration is produced only when it
\* equals duration.
C12_EndsWithinDuration ==
    (pc = "exhausted" /\ streak.same
       /\ discrete_time.dt > 0 /\ discrete_time.duration > 0) =>
        /\ Len(time_list) >= 1
        /\ \A i \in 1..Len(time_list) : time_list[i] <= discrete_time.duration
        /\ Last(time_list) + discrete_time.dt > discrete_time.duration
        /\ (\E i \in 1..Len(time_list) : time_list[i] >= discrete_time.duration)
              <=> (discrete_time.duration % discrete_time.dt = 0)

\* a generator whose duration is not a multiple of dt is exhausted
C12_Witness ==
    /\ pc = "exhausted" /\ streak.same
    /\ discrete_time.dt = 2 /\ discrete_time.duration = 3
    /\ time_list = << 0, 2 >> /\ gen_t = 4

\* C13: constructing a DiscreteTime whose dt or duration is zero or negative
\* fails, so no DiscreteTime with dt <= 0 or duration <= 0 ever exists.
C13_PositiveOnly ==
    discrete_time # None => discrete_time.dt > 0 /\ discrete_time.duration > 0

(***************************************************************************)
(* Properties of the motion profiles                                       *)
(***************************************************************************)
\* C14: for all valid trapezoidal parameters, the triangular ones included,
\* calculate_cmd_vel_pos(T) at the profile's computed total time T returns
\* exactly (0, dir*|L|).
C14_ArrivesAtT ==
    (op = "calculate_cmd_vel_pos" /\ trace[1].pre.type = "trapezoid"
     /\ trace[1].t = trace[1].pre.T) =>
        /\ trace[1].vel = 0
        /\ trace[1].pos = trace[1].pre.dir * trace[1].pre.L

\* C15: calculate_cmd_vel_pos(t) of the trapezoid selects its phase by t
\* alone and returns the phase's formula: accelerate for t < Ta, cruise for
\* Ta <= t < Ta+Tc, decelerate for Ta+Tc <= t <= T, hold for t > T; the
\* result does not depend on earlier calls.
C15_Phases ==
    (op = "calculate_cmd_vel_pos" /\ trace[1].pre.type = "trapezoid") =>
        LET p  == trace[1].pre
            tt == trace[1].t
            td == tt - p.Ta - p.Tc
        IN  /\ motion_profile = p
            /\ << trace[1].vel, trace[1].pos >> = calculate_cmd_vel_pos(motion_profile, tt)
            /\ tt < p.Ta =>
                  /\ trace[1].vel = p.dir * p.A * tt
                  /\ 2 * trace[1].pos = p.dir * p.A * tt * tt
            /\ (p.Ta <= tt /\ tt < p.Ta + p.Tc) =>
                  /\ trace[1].vel = p.dir * p.A * p.Ta
                  /\ 2 * trace[1].pos = p.dir * (p.A * p.Ta * p.Ta + 2 * p.V * (tt - p.Ta))
            /\ (p.Ta + p.Tc <= tt /\ tt <= p.T) =>
                  /\ trace[1].vel = p.dir * p.A * (p.T - tt)
                  /\ 2 * trace[1].pos = p.dir * (p.A * p.Ta * p.Ta + 2 * p.V * p.Tc
                                                 + 2 * p.V * td - p.A * td * td)
            /\ tt > p.T =>
                  /\ trace[1].vel = 0
                  /\ trace[1].pos = p.dir * p.L

\* the third call in a row, on a profile that moves backwards, at the
\* instant where cruising ends
C15_Witness ==
    /\ op = "calculate_cmd_vel_pos" /\ trace[1].pre.type = "trapezoid"
    /\ calls = MaxCalls /\ trace[1].pre.dir = -1 /\ trace[1].pre.Tc > 0
    /\ trace[1].t = trace[1].pre.Ta + trace[1].pre.Tc
    /\ trace[1].vel = - (trace[1].pre.A * trace[1].pre.Ta)

\* C16: whenever Tc = |L|/V - V/A would be negative, construction
\* gives Ta = sqrt(|L|/A), Tc = 0 and T = 2*Ta, and for every elapsed time t
\* the magnitude of the commanded velocity is at most A*Ta, which is below V.
C16_TriangularAnyT ==
    (motion_profile # None /\ motion_profile.type = "trapezoid"
     /\ motion_profile.L * motion_profile.A < motion_profile.V * motion_profile.V) =>
        /\ motion_profile.Ta * motion_profile.Ta * motion_profile.A = motion_profile.L
        /\ motion_profile.Ta >= 0 /\ motion_profile.Tc = 0
        /\ motion_profile.T = 2 * motion_profile.Ta
        /\ motion_profile.A * motion_profile.Ta < motion_profile.V
        /\ op = "calculate_cmd_vel_pos" =>
              Abs(trace[1].vel) <= motion_profile.A * motion_profile.Ta

\* the triangular profile is asked for its command at the peak, t = Ta
C16_Witness ==
    /\ op = "calculate_cmd_vel_pos" /\ motion_profile.type = "trapezoid"
    /\ motion_profile.L * motion_profile.A < motion_profile.V * motion_profile.V
    /\ trace[1].t = motion_profile.Ta /\ motion_profile.Ta > 0
    /\ Abs(trace[1].vel) = motion_profile.A * motion_profile.Ta

\* C18: ImpulseMotionProfile.calculate_cmd_vel_pos: counted from
\* construction, the first on_step_count calls return (impulse velocity,
\* impulse position) and every later call (0, 0), whatever t is passed.
C18_ImpulseByCallCount ==
    (op = "calculate_cmd_vel_pos" /\ trace[1].pre.type = "impulse") =>
        /\ << trace[1].vel, trace[1].pos >> =
              IF calls <= trace[1].pre.t_step
              THEN << trace[1].pre.p_vel, trace[1].pre.p_pos >>
              ELSE << 0, 0 >>
        /\ motion_profile.step_counter =
              IF calls <= motion_profile.t_step THEN calls ELSE motion_profile.t_step

\* the call after the last impulse, made with t = 0, returns (0, 0)
C18_Witness ==
    /\ op = "calculate_cmd_vel_pos" /\ trace[1].pre.type = "impulse"
    /\ calls = trace[1].pre.t_step + 1 /\ trace[1].t = 0
    /\ trace[1].vel = 0 /\ trace[1].pre.p_vel # 0

(***************************************************************************)
(* Properties of the controllers' counters and of reset()                  *)
(***************************************************************************)
\* C19: ImpulseController.calculate_force: a call with t < delay returns 0
\* and leaves the counter; of the calls with t >= delay since the last
\* reset() or construction, the first on_step_count return the force and
\* each increments the counter, the later ones return 0; reset() sets the
\* counter back to 0.
C19_ImpulseForce ==
    /\ (controller # None /\ controller.type = "impulse") =>
          controller.step_counter =
             IF since <= controller.on_timestep_count THEN since
             ELSE controller.on_timestep_count
    /\ (op = "reset" /\ controller # None /\ controller.type = "impulse") =>
          controller.step_counter = 0
    /\ (op = "calculate_force" /\ controller.type = "impulse") =>
          LET c == trace[1]
              k == c.pre
          IN  /\ c.t < k.delay_s =>
                    c.ret = 0 /\ controller.step_counter = k.step_counter
              /\ (c.t >= k.delay_s /\ since <= k.on_timestep_count) =>
                    /\ c.ret = k.p_force
                    /\ controller.step_counter = k.step_counter + 1
              /\ (c.t >= k.delay_s /\ since > k.on_timestep_count) =>
                    c.ret = 0 /\ controller.step_counter = k.step_counter

\* one more call past the delay than the impulse lasts: it returns 0
C19_Witness ==
    /\ op = "calculate_force" /\ controller.type = "impulse"
    /\ controller.p_force # 0 /\ controller.on_timestep_count > 0
    /\ since = controller.on_timestep_count + 1
    /\ trace[1].t >= controller.delay_s /\ trace[1].ret = 0
    /\ trace[1].pre.force = controller.p_force

\* C20: after reset() on any Controller or PhysicalObject variant, every
\* observable field equals its value right after construction: for
\* controllers the errors, cumulative errors, previous errors, differences,
\* the impulse counter and the last computed force are 0; for plants acc,
\* prev_acc, vel, prev_vel, pos, prev_pos and the MDS forces are 0.
C20_ResetToConstruction ==
    op = "reset" =>
        /\ controller # None =>
              /\ controller.vel_error = 0 /\ controller.pos_error = 0
              /\ controller.vel_error_cumsum = 0 /\ controller.pos_error_cumsum = 0
              /\ controller.prev_vel_error = 0 /\ controller.prev_pos_error = 0
              /\ controller.vel_error_diff = 0 /\ controller.pos_error_diff = 0
              /\ controller.step_counter = 0
              /\ controller.force = 0
        /\ plant # None =>
              /\ plant.acc = 0 /\ plant.prev_acc = 0
              /\ plant.vel = 0 /\ plant.prev_vel = 0
              /\ plant.pos = 0 /\ plant.prev_pos = 0
              /\ plant.damper_force = 0 /\ plant.spring_force = 0
              /\ plant.net_force = 0

(***************************************************************************)
(* The example scenario                                                    *)
(***************************************************************************)
\* C17: in the example scenario execute() produces rows, and the commanded
\* position in the last of them is 1.0, the full travel length: when
\* execute() has ended it has performed at least one step, and the position
\* commanded in its last step is dir * L.
C17_EndsAtFullLength ==
    (op = "execute" /\ pc = "idle") =>
        /\ applied > 0
        /\ cmd_pos = motion_profile.dir * motion_profile.L

(***************************************************************************)
(* Accumulation and closed forms                                           *)
(***************************************************************************)
\* C22: when the n calculate_force calls a PIDController received since its
\* last reset() (or construction) all had the same velocity error
\* e = cmd_vel - plant_vel, vel_error_cumsum is n*e: nothing is clamped and
\* nothing leaks away.
C22_CumsumLinear ==
    (controller # None /\ controller.type = "PID" /\ streak.same) =>
        LET e == IF streak.n = 0 THEN 0 ELSE streak.key[1]
        IN  controller.vel_error_cumsum = streak.n * e

\* three calls with the velocity error 2: the sum is 6
C22_Witness ==
    /\ controller # None /\ controller.type = "PID"
    /\ streak.same /\ streak.n = 3 /\ streak.key = << 2 >>
    /\ controller.vel_error_cumsum = 6

\* C23: a single mass at rest (constructed or reset) that received n
\* apply_force calls with the same force F and the same dt has
\* vel = (F/mass)*n*dt and pos = 0.5*(F/mass)*(n*dt)^2.
C23_ClosedForm ==
    (plant # None /\ plant.type = "mass" /\ streak.same) =>
        LET n  == streak.n
            F  == IF n = 0 THEN 0 ELSE streak.key[1]
            dt == IF n = 0 THEN 0 ELSE streak.key[2]
        IN  /\ plant.vel * plant.mass = F * n * dt
            /\ 2 * plant.pos * plant.mass = F * (n * dt) * (n * dt)

\* three steps of 2 s with the force 4 on the mass 2: vel 12, pos 36
C23_Witness ==
    /\ plant # None /\ plant.type = "mass" /\ plant.mass = 2
    /\ streak.same /\ streak.n = 3 /\ streak.key = << 4, 2 >>
    /\ plant.vel = 12 /\ plant.pos = 36

(***************************************************************************)
(* reset() and replay                                                      *)
(***************************************************************************)
\* C21: feeding a controller or a plant a sequence of inputs after reset()
\* gives what the same sequence gives on the object as constructed: after
\* every call since the last reset() the object (returned force, error
\* terms, counter; acc, vel, pos) equals the freshly constructed object fed
\* the same calls, whatever was fed before the reset().
C21_ReplayAfterReset ==
    /\ (controller # None /\ twin # None /\ streak.n >= 1) =>
          /\ controller = twin.now
          /\ calculate_force_result(controller) = calculate_force_result(twin.now)
    /\ (controller # None /\ twin # None /\ streak.n = 0) =>
          controller = [twin.now EXCEPT !.force = controller.force]
    /\ (plant # None /\ twin # None) => plant = twin.now

\* a PID controller was fed two calls, reset (the force of the earlier calls
\* is still there, the sums are back to 0) and fed one more call
C21_Witness ==
    /\ controller # None /\ controller.type = "PID"
    /\ calls = 3 /\ streak.n = 1
    /\ trace[1].call = "calculate_force"
    /\ trace[1].pre.force # 0 /\ trace[1].pre.vel_error_cumsum = 0
    /\ controller.vel_error_cumsum # 0 /\ controller.pos_error_cumsum # 0
    /\ controller.force # 0

(***************************************************************************)
(* Construction of the physical objects                                    *)
(***************************************************************************)
\* C24 as stated: constructing a mass-damper-spring object fails when mass,
\* damper or spring is missing, and succeeds, with spring_balance_pos = 0
\* when the balance position is absent, whenever the three are given; no
\* other field is required.  The configuration carries a version the plant
\* module accepts, and its entry one the physical objects accept.
C24_BalanceDefaultsToZero ==
    (op = "PlantLoader.load"
       /\ is_config_compatible(Plant_module_version, trace[1].config.version)
       /\ "physical_object" \in DOMAIN trace[1].config
       /\ Len(trace[1].config.physical_object) > 0
       /\ PlantPhysicalObjectConfig(trace[1].config).type = "MDS"
       /\ ~PhysicalObjectIncompatible(PlantPhysicalObjectConfig(trace[1].config))
       /\ "version" \in DOMAIN PlantPhysicalObjectConfig(trace[1].config)) =>
        LET config == PlantPhysicalObjectConfig(trace[1].config)
            given  == {"mass_kg", "damper_Ns_m", "spring_N_m"} \subseteq DOMAIN config
        IN  /\ ~given => plant = None
            /\ given =>
                  /\ plant # None
                  /\ plant.spring_balance_pos =
                        IF "spring_balance_pos_m" \in DOMAIN config
                        THEN config.spring_balance_pos_m ELSE 0

\* C25 as stated: no physical object is constructed with a mass that is zero
\* or negative, so apply_force never divides by a zero mass.
C25_MassPositive ==
    /\ plant # None => plant.mass > 0
    /\ outcome # "ZeroDivisionError"

(***************************************************************************)
(* Mass-damper-spring without damper and spring                            *)
(***************************************************************************)
\* C29: a mass-damper-spring object with damper = 0 and spring = 0 steps as
\* the single mass of the same mass does: from the same acc, vel and pos,
\* apply_force(force, dt) leaves both with the same acc, prev_acc, vel,
\* prev_vel, pos and prev_pos, and the net force is the external force.
C29_MDSWithoutDamperSpring ==
    (op = "apply_force" /\ plant.type = "MDS"
       /\ plant.damper = 0 /\ plant.spring = 0) =>
        LET c    == trace[1]
            mass == [PhysicalObject([version |-> PhysicalObject_module_version,
                                     type |-> "mass", mass_kg |-> c.pre.mass]) EXCEPT
                        !.acc = c.pre.acc, !.prev_acc = c.pre.prev_acc,
                        !.vel = c.pre.vel, !.prev_vel = c.pre.prev_vel,
                        !.pos = c.pre.pos, !.prev_pos = c.pre.prev_pos]
            m1   == apply_force(mass, c.force, c.dt, FALSE)
        IN  /\ plant.acc = m1.acc /\ plant.prev_acc = m1.prev_acc
            /\ plant.vel = m1.vel /\ plant.prev_vel = m1.prev_vel
            /\ plant.pos = m1.pos /\ plant.prev_pos = m1.prev_pos
            /\ plant.net_force = c.force
            /\ plant.damper_force = 0 /\ plant.spring_force = 0

\* the object was moving, away from the origin, and has been pushed again
C29_Witness ==
    /\ op = "apply_force" /\ plant.type = "MDS"
    /\ plant.damper = 0 /\ plant.spring = 0
    /\ trace[1].pre.vel # 0 /\ trace[1].pre.pos # 0 /\ trace[1].pre.acc # 0
    /\ trace[1].force # 0 /\ plant.acc # trace[1].pre.acc

C27_MonotoneWithinLength ==
    (op = "calculate_cmd_vel_pos" /\ motion_profile.type = "trapezoid"
       /\ trace[1].t >= 0) =>
        \A t2 \in UnitProfileTimes :
            trace[1].t <= t2 =>
                LET p  == motion_profile
                    x1 == p.dir * trace[1].pos
                    x2 == p.dir * calculate_cmd_vel_pos(p, t2)[2]
                IN  0 <= x1 /\ x1 <= x2 /\ x2 <= p.L

(***************************************************************************)
(* Failed loads                                                            *)
(***************************************************************************)
\* C28: a load_* that fails raises ValueError and leaves None in place of
\* the component, also when one had been loaded before, so the MotionFlow is
\* not configured any more, and execute() starts a run only when all four
\* components are there: after a failed load it is refused.
C28_FailedLoadUnloads ==
    [][ /\ (op' = "load_discrete_time" /\ outcome' = "ValueError: load failed")
             => discrete_time' = None
        /\ (op' = "load_motion_profile" /\ outcome' = "ValueError: load failed")
             => motion_profile' = None
        /\ (op' = "load_controller" /\ outcome' = "ValueError: load failed")
             => controller' = None
        /\ (op' = "load_plant" /\ outcome' = "ValueError: load failed")
             => plant' = None
        /\ outcome' = "ValueError: load failed" => ~AllLoaded'
        /\ (~AllLoaded /\ op' = "execute")
             => pc' = "idle" /\ outcome' = "ValueError: not loaded"
        /\ (pc = "idle" /\ pc' # "idle") => AllLoaded
      ]_vars

\* a MotionFlow that was fully configured, and on which execute() was
\* called, lost its plant to a failed load_plant
C28_Witness ==
    /\ op = "load_plant" /\ outcome = "ValueError: load failed"
    /\ runs >= 1 /\ plant = None
    /\ discrete_time # None /\ controller # None /\ motion_profile # None

(***************************************************************************)
(* Dispatch on the type tag                                                *)
(***************************************************************************)
\* C30: a type tag that names no variant is no error.  A controller
\* configuration whose type is not exactly PID, impulse, step or sin loads
\* as the base Controller, whose force is 0 at every step; a profile type
\* other than trapezoid and impulse loads as the base MotionProfile, whose
\* command is (0, 0) at every step; a physical-object type other than MDS
\* gives the single mass; and execute() on a MotionFlow loaded with these
\* defaults runs to completion and raises nothing.
C30_UnknownTagDefaults ==
    /\ \A c \in ControllerConfigs :
          (is_config_compatible(Controller_module_version, c.version)
             /\ c.type \notin {"PID", "impulse", "step", "sin"}) =>
              /\ ControllerLoader_load(c) # None
              /\ ControllerLoader_load(c).type = "null"
    /\ \A c \in MotionProfileConfigs :
          (is_config_compatible(MotionProfile_module_version, c.version)
             /\ c.type \notin {"trapezoid", "impulse"}) =>
              /\ MotionProfileLoader_load(c) # None
              /\ MotionProfileLoader_load(c).type = "null"
    /\ \A c \in PlantConfigs :
          (/\ is_config_compatible(Plant_module_version, c.version)
           /\ is_config_compatible(PhysicalObject_module_version,
                                   PlantPhysicalObjectConfig(c).version)
           /\ PlantPhysicalObjectConfig(c).type # "MDS") =>
              /\ PlantLoader_load(c) # None
              /\ PlantLoader_load(c).type = "mass"
    /\ (controller # None /\ controller.config_type \notin {"PID", "impulse", "step", "sin"}) =>
          /\ controller.type = "null" /\ controller.force = 0
          /\ \A a \in FlowCallArgs :
                calculate_force_result(
                    calculate_force(controller, a[1], a[2], a[3], a[4], a[5])) = 0
    /\ (motion_profile # None /\ motion_profile.config_type \notin {"trapezoid", "impulse"}) =>
          /\ motion_profile.type = "null"
          /\ \A tt \in UnitProfileTimes :
                calculate_cmd_vel_pos(motion_profile, tt) = << 0, 0 >>
    /\ (plant # None /\ plant.config_type # "MDS") => plant.type = "mass"
    /\ (op = "execute" /\ pc = "idle" /\ AllLoaded
          /\ controller.config_type \notin {"PID", "impulse", "step", "sin"}
          /\ motion_profile.config_type \notin {"trapezoid", "impulse"}
          /\ plant.config_type # "MDS") =>
          outcome = "DataFrame"

=============================================================================
